---- MODULE Spec2Model ----
(***************************************************************************)
(* Verification model of the JuliaBase table export                        *)
(* (samples/views/table_export.py): the DataNode forest, the column-group  *)
(* builder, the tree flattener and the table generator.                    *)
(*                                                                         *)
(* Python values are represented as follows.                               *)
(*   - An optional value (a value that may be None) is a sequence of       *)
(*     length at most one: None is << >>, the value x is << x >>.          *)
(*   - A list is a sequence.  Python indices (0-based) are kept as they    *)
(*     are in key_indices, shared_columns, position and the selection;     *)
(*     the element with Python index i of a list s is s[i + 1].            *)
(*   - A dict is a function whose DOMAIN is the set of its keys.           *)
(*   - A call that raises is a record with raised = TRUE.                  *)
(*   - A str that the code takes apart (split, strip, int) is the sequence *)
(*     of its characters.                                                  *)
(***************************************************************************)
EXTENDS Integers, Sequences, FiniteSets, TLC

VARIABLES
    root,                \* the forest: a DataNode whose children are the row trees
    pc,                  \* how far the export request has come
    column_groups,       \* result of build_column_group_list: list of ColumnGroup
    columns,             \* result of build_column_group_list: list of Column
    shared_columns,      \* the builder's local dict (origin, key) -> column index
    flattened_tree,      \* result of flatten_tree: one dict per row tree
    selected_key_indices,\* the list of column indices given to generate_table_rows
    label_column,        \* the labels given to generate_table_rows
    table_rows,          \* result of generate_table_rows
    outcome,             \* "none", "returned" or the name of the exception raised
    form_pc,             \* how far the selection form has come
    initial,             \* the initial argument of OldDataForm, None if not given
    fields_initial,      \* the initial values of the fields column_groups and columns
    data,                \* the submitted data of the bound form
    cleaned_data,        \* the form's cleaned_data after validation
    errors,              \* the names of the fields with a ValidationError
    files,               \* the files below the crawler's root: path -> mtime, md5
    diff_file,           \* the pickle file: None or (statuses, pattern)
    crawl_pc,            \* "idle", or "running" inside the with block
    statuses,            \* changed_files' dict statuses
    new_statuses,        \* changed_files' dict new_statuses
    last_pattern,        \* changed_files' last_pattern
    iterator,            \* the TrackingIterator: what it has yet to yield, its items
    last_run,            \* the paths the run before held, as it left them
    touched_since,       \* the paths written or removed since the run before
    lock_directory,      \* /tmp/<name>.pid: None, or the inode the name refers to
    inodes,              \* the lock files ever created: content and holder of flock
    lock_pc,             \* per process: where it is in the with PIDLock block
    lockfile,            \* per process: self.lockfile, the inode it has opened
    locked,              \* per process: self.locked
    pid,                 \* per process: the pid read from the lock file
    perm_pc,             \* how far the permission check has come
    perm_call,           \* the assert_can_ function that is checked and its arguments
    assert_outcome,      \* what assert_can_...(*args) did
    has_outcome,         \* what has_permission_to_...(*args) did
    tasks,               \* the table of Task: id -> the task's fields
    request_user,        \* request.user of the task views: None before the login
    task_response        \* what the last task view did, for which task, and
                         \* the fixed_fields of its TaskForm

exportVars == << root, pc, column_groups, columns, shared_columns, flattened_tree,
                 selected_key_indices, label_column, table_rows, outcome >>

formVars == << form_pc, initial, fields_initial, data, cleaned_data, errors >>

crawlerVars == << files, diff_file, crawl_pc, statuses, new_statuses, last_pattern,
                 iterator, last_run, touched_since >>

lockVars == << lock_directory, inodes, lock_pc, lockfile, locked, pid >>

permissionVars == << perm_pc, perm_call, assert_outcome, has_outcome >>

\* what the export, the forms, the crawler, the lock and the permissions each
\* leave alone
taskVars == << tasks, request_user, task_response >>

otherThanExport == << formVars, crawlerVars, lockVars, permissionVars, taskVars >>

otherThanForms == << exportVars, crawlerVars, lockVars, permissionVars, taskVars >>

otherThanCrawler == << exportVars, formVars, lockVars, permissionVars, taskVars >>

otherThanLock == << exportVars, formVars, crawlerVars, permissionVars, taskVars >>

otherThanPermissions == << exportVars, formVars, crawlerVars, lockVars, taskVars >>

otherThanTasks == << exportVars, formVars, crawlerVars, lockVars, permissionVars >>

vars == << exportVars, formVars, crawlerVars, lockVars, permissionVars, taskVars >>

----------------------------------------------------------------------------
(* Bounds of the model *)

MaxNodes == 3
MaxItems == 2
MaxTableNodes == 2
MaxDepositions == 2
MaxOrderNodes == 4
MaxNameLen == 2
MaxSelected == 2
MaxPostedLen == 3
MaxMtime == 2
MaxProcesses == 3
MaxProcessSamples == 1
MaxLayers == 1

----------------------------------------------------------------------------
(* Python helpers *)

None == << >>

Some(x) == << x >>

EmptyDict == << >>

\* dict.update / d[k] = v for every k of e
DictUpdate(d, e) ==
    [x \in (DOMAIN d) \cup (DOMAIN e) |-> IF x \in DOMAIN e THEN e[x] ELSE d[x]]

\* d[k] = v
DictSet(d, k, v) ==
    [x \in (DOMAIN d) \cup {k} |-> IF x = k THEN v ELSE d[x]]

\* list.insert(position, x) overwriting the element at the position
ListInsertOverwriting(s, position, x) ==
    LET p == IF position > Len(s) THEN Len(s) ELSE position
    IN  SubSeq(s, 1, p) \o << x >> \o SubSeq(s, p + 2, Len(s))

\* list.insert(position, x): a position beyond the end appends
ListInsert(s, position, x) ==
    LET p == IF position > Len(s) THEN Len(s) ELSE position
    IN  SubSeq(s, 1, p) \o << x >> \o SubSeq(s, p + 1, Len(s))

\* separator.join(list of str)
RECURSIVE StrJoin(_, _)
StrJoin(separator, s) ==
    IF Len(s) = 0 THEN ""
    ELSE IF Len(s) = 1 THEN s[1]
    ELSE s[1] \o separator \o StrJoin(separator, Tail(s))

\* the elements of a list
Range(s) == {s[i] : i \in DOMAIN s}

\* the concatenation of a list of lists
RECURSIVE Concat(_)
Concat(ss) ==
    IF Len(ss) = 0 THEN << >> ELSE ss[1] \o Concat(Tail(ss))

----------------------------------------------------------------------------
(* The DataNode tree *)

NodeNames == {"A", "B", "C"}

\* DataItem(key, value, origin)
DataItem(key, value, origin) == [key |-> key, value |-> value, origin |-> origin]

\* the items get_data may append: a key with an origin, the same key without, and
\* another key whose value is absent
DataItems ==
    {DataItem("k", Some("1"), Some("o")),
     DataItem("k", Some("2"), None),
     DataItem("m", None, None)}

\* DataNode(name): no items, no children, top_level not yet written
DataNode(name) ==
    [name |-> name, items |-> << >>, children |-> << >>, top_level |-> None]

\* sum of a list of numbers
RECURSIVE SumSeq(_)
SumSeq(s) ==
    IF Len(s) = 0 THEN 0 ELSE s[1] + SumSeq(Tail(s))

RECURSIVE NodeCount(_)
NodeCount(node) ==
    1 + SumSeq([i \in 1..Len(node.children) |-> NodeCount(node.children[i])])

RECURSIVE ItemCount(_)
ItemCount(node) ==
    Len(node.items)
    + SumSeq([i \in 1..Len(node.children) |-> ItemCount(node.children[i])])

\* the names of a tree's nodes
RECURSIVE TreeNames(_)
TreeNames(node) ==
    {node.name} \cup UNION {TreeNames(node.children[i]) : i \in 1..Len(node.children)}

\* the length of the path from a node to its last descendant along last children
RECURSIVE RightDepth(_)
RightDepth(node) ==
    IF Len(node.children) = 0 THEN 1
    ELSE 1 + RightDepth(node.children[Len(node.children)])

\* node.children.append(child), at the node that is depth - 1 last-child steps down
RECURSIVE AppendChild(_, _, _)
AppendChild(node, depth, child) ==
    IF depth = 1
    THEN [node EXCEPT !.children = Append(@, child)]
    ELSE [node EXCEPT !.children[Len(node.children)] = AppendChild(@, depth - 1, child)]

\* data_node.items.append(item), at the node added last
RECURSIVE AppendItem(_, _)
AppendItem(node, item) ==
    IF Len(node.children) = 0
    THEN [node EXCEPT !.items = Append(@, item)]
    ELSE [node EXCEPT !.children[Len(node.children)] = AppendItem(@, item)]

----------------------------------------------------------------------------
(* ColumnGroup and Column *)

\* ColumnGroup.__init__
ColumnGroup(name) == [name |-> name, key_indices |-> EmptyDict]

\* ColumnGroup.__eq__, as used by "node in column_groups"
NodeInColumnGroups(node, groups) ==
    \E g \in 1..Len(groups) : groups[g].name = node.name

\* column_groups.index(node): the Python index of the first equal element
ListIndex(groups, node) ==
    (CHOOSE g \in 1..Len(groups) :
        /\ groups[g].name = node.name
        /\ \A h \in 1..(g - 1) : groups[h].name # node.name) - 1

\* Column.__init__
Column(column_group_name, key) ==
    [column_group_names |-> << column_group_name >>, key |-> key, heading |-> key]

\* Column.append_name
append_name(column, column_group_name) ==
    [column EXCEPT !.column_group_names = Append(@, column_group_name)]

\* Column.disambig
disambig(column) ==
    [column EXCEPT !.heading =
        column.key \o " {" \o StrJoin(" / ", column.column_group_names) \o "}"]

Returned(value) == [raised |-> FALSE, exception |-> "", value |-> value]

Raised(exception) == [raised |-> TRUE, exception |-> exception, value |-> ""]

\* Column.get_value, the loop from the n-th column group name on
RECURSIVE GetValueFrom(_, _, _)
GetValueFrom(column, row, n) ==
    IF n > Len(column.column_group_names)
    THEN Returned("")
    ELSE IF column.column_group_names[n] \in DOMAIN row
         THEN IF column.key \in DOMAIN row[column.column_group_names[n]]
              THEN Returned(row[column.column_group_names[n]][column.key])
              ELSE Raised("KeyError")
         ELSE GetValueFrom(column, row, n + 1)

\* get_value looking at the first column group name alone
get_value_first_name(column, row) ==
    IF /\ column.column_group_names[1] \in DOMAIN row
       /\ column.key \in DOMAIN row[column.column_group_names[1]]
    THEN Returned(row[column.column_group_names[1]][column.key])
    ELSE Raised("KeyError")

\* Column.get_value
get_value(column, row) == GetValueFrom(column, row, 1)

----------------------------------------------------------------------------
(* build_column_group_list *)

\* truth value of node.top_level
TruthyFlag(top_level) == top_level = Some(TRUE)

\* truth value of item.origin (None and "" are false)
TruthyStr(origin) == origin # None /\ origin[1] # ""

\* walk_row_tree: the node as the walk leaves it (top_level written in the
\* whole subtree) and the returned list of nodes, in pre-order
RECURSIVE walk_row_tree(_, _)
walk_row_tree(node, top_level) ==
    LET walked == [c \in 1..Len(node.children) |->
                      walk_row_tree(node.children[c], FALSE)]
        marked == [node EXCEPT !.top_level = Some(top_level),
                               !.children = [c \in 1..Len(node.children) |->
                                                walked[c].node]]
    IN  [node |-> marked,
         name_list |-> << marked >>
                       \o Concat([c \in 1..Len(node.children) |-> walked[c].name_list])]

\* the keys occurring on an earlier column than the n-th
SeenKeys(cols, n) == {cols[c].key : c \in 1..(n - 1)}

\* disambig_key_names: the set "duplicates"
DuplicateKeys(cols) ==
    {cols[c].key : c \in {d \in 1..Len(cols) : cols[d].key \in SeenKeys(cols, d)}}

\* disambig_key_names leaving the first column of a duplicated key as it is
disambig_later_key_names(cols) ==
    [c \in 1..Len(cols) |->
        IF cols[c].key \in SeenKeys(cols, c) THEN disambig(cols[c]) ELSE cols[c]]

\* disambig_key_names
disambig_key_names(cols) ==
    [c \in 1..Len(cols) |->
        IF cols[c].key \in DuplicateKeys(cols) THEN disambig(cols[c]) ELSE cols[c]]

\* the lists and the dict of the previous call kept instead of fresh ones
KeptBuilderState ==
    [columns |-> columns, column_groups |-> column_groups,
     shared_columns |-> shared_columns, position |-> 0]

\* the local variables of build_column_group_list before the loop
NewBuilderState ==
    [columns |-> << >>, column_groups |-> << >>, shared_columns |-> EmptyDict,
     position |-> 0]

\* ProcessItem without the call of append_name
ProcessItemNoAppendName(b, node, item) ==
    LET shared_key == << item.origin[1], item.key >>
        shareable == TruthyFlag(node.top_level) /\ TruthyStr(item.origin)
    IN  IF shareable /\ shared_key \in DOMAIN b.shared_columns
        THEN [b EXCEPT
                !.column_group.key_indices =
                    DictSet(@, item.key, b.shared_columns[shared_key])]
        ELSE [b EXCEPT
                !.shared_columns =
                    IF shareable THEN DictSet(@, shared_key, b.i) ELSE @,
                !.column_group.key_indices = DictSet(@, item.key, b.i),
                !.columns = Append(@, Column(node.name, item.key)),
                !.i = b.i + 1]

\* ProcessItem without the test of node.top_level
ProcessItemAnyLevel(b, node, item) ==
    LET shared_key == << item.origin[1], item.key >>
        shareable == TruthyStr(item.origin)
    IN  IF shareable /\ shared_key \in DOMAIN b.shared_columns
        THEN [b EXCEPT
                !.column_group.key_indices =
                    DictSet(@, item.key, b.shared_columns[shared_key]),
                !.columns[b.shared_columns[shared_key] + 1] =
                    append_name(@, node.name)]
        ELSE [b EXCEPT
                !.shared_columns =
                    IF shareable THEN DictSet(@, shared_key, b.i) ELSE @,
                !.column_group.key_indices = DictSet(@, item.key, b.i),
                !.columns = Append(@, Column(node.name, item.key)),
                !.i = b.i + 1]

\* ProcessItem recording the length of columns after the append as the index
ProcessItemIndexAfterAppend(b, node, item) ==
    LET shared_key == << item.origin[1], item.key >>
        shareable == TruthyFlag(node.top_level) /\ TruthyStr(item.origin)
    IN  IF shareable /\ shared_key \in DOMAIN b.shared_columns
        THEN [b EXCEPT
                !.column_group.key_indices =
                    DictSet(@, item.key, b.shared_columns[shared_key]),
                !.columns[b.shared_columns[shared_key] + 1] =
                    append_name(@, node.name)]
        ELSE [b EXCEPT
                !.shared_columns =
                    IF shareable THEN DictSet(@, shared_key, b.i) ELSE @,
                !.column_group.key_indices = DictSet(@, item.key, b.i + 1),
                !.columns = Append(@, Column(node.name, item.key)),
                !.i = b.i + 1]

\* one pass of "for item in node.items"; b holds columns, shared_columns,
\* column_group and i
ProcessItem(b, node, item) ==
    LET shared_key == << item.origin[1], item.key >>
        shareable == TruthyFlag(node.top_level) /\ TruthyStr(item.origin)
    IN  IF shareable /\ shared_key \in DOMAIN b.shared_columns
        THEN [b EXCEPT
                !.column_group.key_indices =
                    DictSet(@, item.key, b.shared_columns[shared_key]),
                !.columns[b.shared_columns[shared_key] + 1] =
                    append_name(@, node.name)]
        ELSE [b EXCEPT
                !.shared_columns =
                    IF shareable THEN DictSet(@, shared_key, b.i) ELSE @,
                !.column_group.key_indices = DictSet(@, item.key, b.i),
                !.columns = Append(@, Column(node.name, item.key)),
                !.i = b.i + 1]

\* "for item in node.items", from the n-th item on
RECURSIVE ProcessItems(_, _, _)
ProcessItems(b, node, n) ==
    IF n > Len(node.items) THEN b
    ELSE ProcessItems(ProcessItem(b, node, node.items[n]), node, n + 1)

\* InsertColumnGroup inserting at the front of column_groups, whatever the cursor
InsertColumnGroupAtFront(st, node) ==
    LET b == ProcessItems([columns |-> st.columns,
                           shared_columns |-> st.shared_columns,
                           column_group |-> ColumnGroup(node.name),
                           i |-> Len(st.columns)], node, 1)
    IN  [columns |-> b.columns,
         column_groups |-> ListInsert(st.column_groups, 0, b.column_group),
         shared_columns |-> b.shared_columns,
         position |-> st.position + 1]

\* the else branch of the loop body with "position += 1": a new column group with
\* the node's columns, inserted at the cursor
InsertColumnGroup(st, node) ==
    LET b == ProcessItems([columns |-> st.columns,
                           shared_columns |-> st.shared_columns,
                           column_group |-> ColumnGroup(node.name),
                           i |-> Len(st.columns)], node, 1)
    IN  [columns |-> b.columns,
         column_groups |-> ListInsert(st.column_groups, st.position, b.column_group),
         shared_columns |-> b.shared_columns,
         position |-> st.position + 1]

\* ProcessNode with "row > 1" for "row > 0"
ProcessNodeFromThirdRow(st, row, node) ==
    IF row > 1 /\ NodeInColumnGroups(node, st.column_groups)
    THEN [st EXCEPT !.position = ListIndex(st.column_groups, node) + 1]
    ELSE InsertColumnGroup(st, node)

\* ProcessNode leaving the cursor where it is at a node with a known name
ProcessNodeKeepingCursor(st, row, node) ==
    IF row > 0 /\ NodeInColumnGroups(node, st.column_groups)
    THEN [st EXCEPT !.position = @ + 1]
    ELSE InsertColumnGroup(st, node)

\* the body of "for node in walk_row_tree(row_tree)"
ProcessNode(st, row, node) ==
    IF row > 0 /\ NodeInColumnGroups(node, st.column_groups)
    THEN [st EXCEPT !.position = ListIndex(st.column_groups, node) + 1]
    ELSE InsertColumnGroup(st, node)

\* "for node in walk_row_tree(row_tree)", from the n-th node on
RECURSIVE ProcessNodes(_, _, _, _)
ProcessNodes(st, row, name_list, n) ==
    IF n > Len(name_list) THEN st
    ELSE ProcessNodes(ProcessNode(st, row, name_list[n]), row, name_list, n + 1)

\* "for row, row_tree in enumerate(root.children)", from Python index row on
RECURSIVE ProcessRows(_, _, _)
ProcessRows(st, forest, row) ==
    IF row >= Len(forest.children) THEN st
    ELSE ProcessRows(
            ProcessNodes(st, row, walk_row_tree(forest.children[row + 1], TRUE).name_list, 1),
            forest, row + 1)

\* build_column_group_list, with its local variables at the return statement
BuilderRun(forest) ==
    LET st == ProcessRows(NewBuilderState, forest, 0)
    IN  [st EXCEPT !.columns = disambig_key_names(st.columns)]

\* build_column_group_list: the returned pair
build_column_group_list(forest) ==
    LET locals == BuilderRun(forest)
    IN  << locals.column_groups, locals.columns >>

\* the forest as build_column_group_list leaves it: top_level written everywhere
\* below the root
WalkedForest(forest) ==
    [forest EXCEPT !.children =
        [r \in 1..Len(forest.children) |-> walk_row_tree(forest.children[r], TRUE).node]]

----------------------------------------------------------------------------
(* flatten_tree *)

\* ItemDict with str(item.value) for every value, None included
RECURSIVE ItemDictStr(_, _)
ItemDictStr(items, n) ==
    IF n > Len(items) THEN EmptyDict
    ELSE DictUpdate(
            DictSet(EmptyDict, items[n].key,
                    IF items[n].value # None THEN items[n].value[1] ELSE "None"),
            ItemDictStr(items, n + 1))

\* dict((item.key, item.value if item.value is not None else "") for item in items),
\* from the n-th item on: a later item with the same key wins
RECURSIVE ItemDict(_, _)
ItemDict(items, n) ==
    IF n > Len(items) THEN EmptyDict
    ELSE DictUpdate(
            DictSet(EmptyDict, items[n].key,
                    IF items[n].value # None THEN items[n].value[1] ELSE ""),
            ItemDict(items, n + 1))

\* flatten_row_tree without the loop over node.children
flatten_row_tree_without_children(node) ==
    DictSet(EmptyDict, node.name, ItemDict(node.items, 1))

\* flatten_row_tree; UpdateFrom is "for child in node.children: name_dict.update(...)"
RECURSIVE flatten_row_tree(_)
flatten_row_tree(node) ==
    LET RECURSIVE UpdateFrom(_, _)
        UpdateFrom(name_dict, c) ==
            IF c > Len(node.children) THEN name_dict
            ELSE UpdateFrom(DictUpdate(name_dict, flatten_row_tree(node.children[c])),
                            c + 1)
    IN  UpdateFrom(DictSet(EmptyDict, node.name, ItemDict(node.items, 1)), 1)

\* flatten_tree
flatten_tree(forest) ==
    [r \in 1..Len(forest.children) |-> flatten_row_tree(forest.children[r])]

----------------------------------------------------------------------------
(* generate_table_rows *)

\* all(label_column) in the place of any(label_column)
AllLabels(labels) == \A l \in 1..Len(labels) : labels[l] # ""

\* any(label_column)
AnyLabel(labels) == \E l \in 1..Len(labels) : labels[l] # ""

\* generate_table_rows running through the selection from its end
generate_table_rows_reversed(flattened, cols, selected, labels, label_column_heading) ==
    LET generate_label_column == AnyLabel(labels)
        reversed == [s \in 1..Len(selected) |-> selected[Len(selected) + 1 - s]]
        head_row == (IF generate_label_column THEN << label_column_heading >> ELSE << >>)
                    \o [s \in 1..Len(reversed) |-> cols[reversed[s] + 1].heading]
        cell(r, s) == get_value(cols[reversed[s] + 1], flattened[r])
        table_row(r) == (IF generate_label_column THEN << labels[r] >> ELSE << >>)
                        \o [s \in 1..Len(reversed) |-> cell(r, s).value]
    IN  IF \E r \in 1..Len(flattened), s \in 1..Len(reversed) : cell(r, s).raised
        THEN Raised("KeyError")
        ELSE Returned(<< head_row >> \o [r \in 1..Len(flattened) |-> table_row(r)])

\* generate_table_rows
generate_table_rows(flattened, cols, selected, labels, label_column_heading) ==
    LET generate_label_column == AnyLabel(labels)
        head_row == (IF generate_label_column THEN << label_column_heading >> ELSE << >>)
                    \o [s \in 1..Len(selected) |-> cols[selected[s] + 1].heading]
        cell(r, s) == get_value(cols[selected[s] + 1], flattened[r])
        table_row(r) == (IF generate_label_column THEN << labels[r] >> ELSE << >>)
                        \o [s \in 1..Len(selected) |-> cell(r, s).value]
    IN  IF \E r \in 1..Len(flattened), s \in 1..Len(selected) : cell(r, s).raised
        THEN Raised("KeyError")
        ELSE Returned(<< head_row >> \o [r \in 1..Len(flattened) |-> table_row(r)])

----------------------------------------------------------------------------
(* str operations; a str is the sequence of its characters *)

TAB == "\t"

\* str.isspace for one character
IsSpace(c) == c \in {" ", TAB}

\* the lists of at most n elements of S
RECURSIVE SeqsUpTo(_, _)
SeqsUpTo(S, n) ==
    IF n = 0 THEN {<< >>}
    ELSE SeqsUpTo(S, n - 1)
         \cup {Append(s, x) : s \in {t \in SeqsUpTo(S, n - 1) : Len(t) = n - 1}, x \in S}

\* the lists of at most n elements of S without repetition: the orders in which a
\* set of at most n elements can be iterated
DistinctSeqs(S, n) ==
    {s \in SeqsUpTo(S, n) : \A a, b \in 1..Len(s) : s[a] = s[b] => a = b}

\* separator.join(list of str), for strs as character sequences
RECURSIVE JoinStr(_, _)
JoinStr(separator, s) ==
    IF Len(s) = 0 THEN << >>
    ELSE IF Len(s) = 1 THEN s[1]
    ELSE s[1] \o separator \o JoinStr(separator, Tail(s))

\* str.lstrip()
RECURSIVE LStrip(_)
LStrip(text) ==
    IF Len(text) > 0 /\ IsSpace(text[1]) THEN LStrip(Tail(text)) ELSE text

\* str.rstrip()
RECURSIVE RStrip(_)
RStrip(text) ==
    IF Len(text) > 0 /\ IsSpace(text[Len(text)])
    THEN RStrip(SubSeq(text, 1, Len(text) - 1))
    ELSE text

\* str.strip()
Strip(text) == RStrip(LStrip(text))

\* str.split(separator): the pieces between the separators, empty pieces kept
RECURSIVE SplitOn(_, _)
SplitOn(text, separator) ==
    IF \A i \in 1..Len(text) : text[i] # separator
    THEN << text >>
    ELSE LET i == CHOOSE j \in 1..Len(text) :
                      /\ text[j] = separator
                      /\ \A k \in 1..(j - 1) : text[k] # separator
         IN  << SubSeq(text, 1, i - 1) >>
             \o SplitOn(SubSeq(text, i + 1, Len(text)), separator)

\* str.split(): the runs of characters that are not whitespace
RECURSIVE SplitWhitespace(_)
SplitWhitespace(text) ==
    LET rest == LStrip(text)
    IN  IF Len(rest) = 0 THEN << >>
        ELSE IF \A i \in 1..Len(rest) : ~IsSpace(rest[i])
        THEN << rest >>
        ELSE LET i == CHOOSE j \in 1..Len(rest) :
                          /\ IsSpace(rest[j])
                          /\ \A k \in 1..(j - 1) : ~IsSpace(rest[k])
             IN  << SubSeq(rest, 1, i - 1) >>
                 \o SplitWhitespace(SubSeq(rest, i + 1, Len(rest)))

DigitChars == << "0", "1", "2", "3", "4", "5", "6", "7", "8", "9" >>

\* str(i) for an int i >= 0
RECURSIVE IntToStr(_)
IntToStr(i) ==
    IF i < 10 THEN << DigitChars[i + 1] >>
    ELSE IntToStr(i \div 10) \o << DigitChars[(i % 10) + 1] >>

\* the number that a run of decimal digits denotes
RECURSIVE DigitsValue(_)
DigitsValue(digits) ==
    IF Len(digits) = 0 THEN 0
    ELSE 10 * DigitsValue(SubSeq(digits, 1, Len(digits) - 1))
         + ((CHOOSE d \in 1..10 : DigitChars[d] = digits[Len(digits)]) - 1)

\* int(text): whitespace around the number is ignored, a sign may come first,
\* and anything but decimal digits after that is a ValueError
int(text) ==
    LET stripped == Strip(text)
        signed == Len(stripped) > 0 /\ stripped[1] \in {"+", "-"}
        digits == IF signed THEN Tail(stripped) ELSE stripped
    IN  IF Len(digits) > 0 /\ \A i \in 1..Len(digits) : digits[i] \in Range(DigitChars)
        THEN Returned(IF signed /\ stripped[1] = "-"
                      THEN 0 - DigitsValue(digits) ELSE DigitsValue(digits))
        ELSE Raised("ValueError")

----------------------------------------------------------------------------
(* ColumnsForm and OldDataForm *)

\* forms.CharField(required=False): the submitted value without the whitespace
\* at its ends
CharFieldClean(value) == Strip(value)

\* set(int(i) for i in tokens) leaving out the tokens that int() rejects
SetOfIntsSkipping(tokens) ==
    Returned({int(tokens[t]).value : t \in {u \in 1..Len(tokens) : ~int(tokens[u]).raised}})

\* set(int(i) for i in tokens): the ValueError of the first bad token ends it
SetOfInts(tokens) ==
    IF \E t \in 1..Len(tokens) : int(tokens[t]).raised
    THEN Raised("ValueError")
    ELSE Returned({int(tokens[t]).value : t \in 1..Len(tokens)})

\* try: return ...  except ValueError: raise ValidationError(...)
ValueErrorToValidationError(result) ==
    IF result.raised THEN Raised("ValidationError") ELSE result

\* ColumnsForm.clean_columns; value is cleaned_data["columns"], a list of str
ColumnsForm_clean_columns(value) ==
    ValueErrorToValidationError(SetOfInts(value))

\* OldDataForm.__init__: the initial values of the two fields
OldDataForm_fields_initial(column_groups_list, columns_list) ==
    [column_groups |-> JoinStr(<< TAB >>, column_groups_list),
     columns |-> JoinStr(<< " " >>, [i \in 1..Len(columns_list) |-> IntToStr(columns_list[i])])]

\* OldDataForm.clean_column_groups; value is cleaned_data["column_groups"]
OldDataForm_clean_column_groups(value) ==
    Returned(Range(SplitOn(value, TAB)))

\* OldDataForm.clean_columns; value is cleaned_data["columns"]
OldDataForm_clean_columns(value) ==
    ValueErrorToValidationError(SetOfInts(SplitWhitespace(value)))

\* the characters of column group names: none is a TAB
NameChars == {"a", " "}

\* the names a column group may have
GroupNameTexts == SeqsUpTo(NameChars, MaxNameLen)

\* the indices a column may have
ColumnIndexValues == {0, 7, 10}

\* the characters of a submitted text
PostedChars == {"1", "2", " ", "x"}

\* the values submitted to ColumnsForm for the field columns
PostedTokens ==
    {<< "1" >>, << "1", "2" >>, << " ", "2" >>, << "-", "1" >>, << "x" >>,
     << "1", "x" >>, << >>}

\* the orders in which the selected column groups' names are iterated
GroupNameLists == DistinctSeqs(GroupNameTexts, MaxSelected)

\* the orders in which the selected columns' indices are iterated
ColumnIndexLists == DistinctSeqs(ColumnIndexValues, MaxSelected)

\* the texts submitted to OldDataForm for the field columns
PostedTexts == SeqsUpTo(PostedChars, MaxPostedLen)

\* the lists of values submitted to ColumnsForm for the field columns
PostedLists == SeqsUpTo(PostedTokens, MaxSelected)

InitForms ==
    /\ form_pc = "none"
    /\ initial = None
    /\ fields_initial = [column_groups |-> << >>, columns |-> << >>]
    /\ data = [form |-> "none", column_groups |-> << >>, columns |-> << >>]
    /\ cleaned_data = [column_groups |-> None, columns |-> None]
    /\ errors = {}

\* OldDataForm(initial={"column_groups": ..., "columns": ...}); the two lists are
\* the sets in the order in which they are iterated
OldDataFormInit(column_groups_list, columns_list) ==
    /\ form_pc = "none"
    /\ initial' = Some([column_groups |-> column_groups_list, columns |-> columns_list])
    /\ fields_initial' = OldDataForm_fields_initial(column_groups_list, columns_list)
    /\ form_pc' = "rendered"
    /\ UNCHANGED << data, cleaned_data, errors >>
    /\ UNCHANGED otherThanForms

\* the next request brings back the hidden fields as they were rendered
SubmitOldData ==
    /\ form_pc = "rendered"
    /\ data' = [form |-> "OldDataForm",
                column_groups |-> fields_initial.column_groups,
                columns |-> fields_initial.columns]
    /\ form_pc' = "bound"
    /\ UNCHANGED << initial, fields_initial, cleaned_data, errors >>
    /\ UNCHANGED otherThanForms

\* OldDataForm(request.GET), with any text for the field columns
SubmitOldDataText(column_groups_text, columns_text) ==
    /\ form_pc = "none"
    /\ data' = [form |-> "OldDataForm",
                column_groups |-> column_groups_text,
                columns |-> columns_text]
    /\ form_pc' = "bound"
    /\ UNCHANGED << initial, fields_initial, cleaned_data, errors >>
    /\ UNCHANGED otherThanForms

\* ColumnsForm(..., request.GET), with any list of values for the field columns
SubmitColumns(values) ==
    /\ form_pc = "none"
    /\ data' = [form |-> "ColumnsForm", column_groups |-> << >>, columns |-> values]
    /\ form_pc' = "bound"
    /\ UNCHANGED << initial, fields_initial, cleaned_data, errors >>
    /\ UNCHANGED otherThanForms

\* is_valid() of the bound form: every field is cleaned, then its clean_<field>
\* method runs; a ValidationError leaves the field out of cleaned_data
Clean ==
    /\ form_pc = "bound"
    /\ LET groups == IF data.form = "OldDataForm"
                     THEN OldDataForm_clean_column_groups(
                              CharFieldClean(data.column_groups))
                     ELSE Raised("none")
           indices == IF data.form = "OldDataForm"
                      THEN OldDataForm_clean_columns(CharFieldClean(data.columns))
                      ELSE ColumnsForm_clean_columns(data.columns)
       IN  /\ cleaned_data' =
                [column_groups |-> IF groups.raised THEN None ELSE Some(groups.value),
                 columns |-> IF indices.raised THEN None ELSE Some(indices.value)]
           /\ errors' = IF indices.raised THEN {"columns"} ELSE {}
    /\ form_pc' = "cleaned"
    /\ UNCHANGED << initial, fields_initial, data >>
    /\ UNCHANGED otherThanForms

----------------------------------------------------------------------------
(* crawler_tools: Path, TrackingIterator and changed_files *)

\* the paths of the files, relative to root; all match the pattern
RelativePaths == {"a.dat", "b.dat"}

\* the checksums that md5sum may print for a file
Md5Sums == {"m1", "m2"}

\* the pattern argument of changed_files
Pattern == ""

\* Path.__init__
Path(path, type_, mtime) == [path |-> path, type_ |-> type_, mtime |-> mtime, done |-> FALSE]

\* Path.was_changed
was_changed(path) == path.type_ \in {"modified", "new"}

\* Path.was_removed
was_removed(path) == path.type_ = "removed"

\* d without the key k
DictDel(d, k) == [x \in (DOMAIN d) \ {k} |-> d[x]]

\* _crawl_all, from the n-th file of the walk on; acc holds found, touched,
\* new_statuses and statuses, whose lists the loop writes to in place
RECURSIVE CrawlFrom(_, _, _, _)
CrawlFrom(fs, acc, walk, n) ==
    IF n > Len(walk) THEN acc
    ELSE LET relative_filepath == walk[n]
             mtime == Some(fs[relative_filepath].mtime)
             known == relative_filepath \in DOMAIN acc.statuses
             status == IF known THEN acc.statuses[relative_filepath]
                       ELSE [mtime |-> None, md5 |-> None]
             is_touched == mtime # status.mtime
             written == [status EXCEPT !.mtime = IF is_touched THEN mtime ELSE @]
         IN  CrawlFrom(fs,
                 [found |-> acc.found \cup {relative_filepath},
                  touched |-> IF is_touched THEN Append(acc.touched, relative_filepath)
                              ELSE acc.touched,
                  new_statuses |-> IF known THEN acc.new_statuses
                                   ELSE DictSet(acc.new_statuses, relative_filepath, written),
                  statuses |-> IF known
                               THEN DictSet(acc.statuses, relative_filepath, written)
                               ELSE acc.statuses],
                 walk, n + 1)

\* _crawl_all(root, statuses, compiled_pattern); walk is the order in which
\* os.walk brings the files
_crawl_all(fs, loaded_statuses, walk) ==
    CrawlFrom(fs, [found |-> {}, touched |-> << >>, new_statuses |-> EmptyDict,
                   statuses |-> loaded_statuses], walk, 1)

\* EnrichFrom collecting in changed only the files that statuses knows
RECURSIVE EnrichFromKnownOnly(_, _, _, _, _)
EnrichFromKnownOnly(fs, acc, loaded_statuses, touched, n) ==
    IF n > Len(touched) THEN acc
    ELSE LET relative_filepath == touched[n]
             md5sum == Some(fs[relative_filepath].md5)
             known == relative_filepath \in DOMAIN loaded_statuses
         IN  IF known /\ md5sum # loaded_statuses[relative_filepath].md5
             THEN LET new_status ==
                          [(IF relative_filepath \in DOMAIN acc.new_statuses
                            THEN acc.new_statuses[relative_filepath]
                            ELSE loaded_statuses[relative_filepath]) EXCEPT !.md5 = md5sum]
                  IN  EnrichFromKnownOnly(fs,
                          [new_statuses |->
                               DictSet(acc.new_statuses, relative_filepath, new_status),
                           changed |->
                               Append(acc.changed,
                                      Path(relative_filepath, "modified",
                                           new_status.mtime[1]))],
                          loaded_statuses, touched, n + 1)
             ELSE EnrichFromKnownOnly(fs, acc, loaded_statuses, touched, n + 1)

\* the loop of _enrich_new_statuses over the lines of md5sum, from the n-th on
RECURSIVE EnrichFrom(_, _, _, _, _)
EnrichFrom(fs, acc, loaded_statuses, touched, n) ==
    IF n > Len(touched) THEN acc
    ELSE LET relative_filepath == touched[n]
             md5sum == Some(fs[relative_filepath].md5)
             known == relative_filepath \in DOMAIN loaded_statuses
             new_status ==
                 [(IF relative_filepath \in DOMAIN acc.new_statuses
                   THEN acc.new_statuses[relative_filepath]
                   ELSE loaded_statuses[relative_filepath]) EXCEPT !.md5 = md5sum]
         IN  IF ~known \/ md5sum # loaded_statuses[relative_filepath].md5
             THEN EnrichFrom(fs,
                      [new_statuses |->
                           DictSet(acc.new_statuses, relative_filepath, new_status),
                       changed |->
                           Append(acc.changed,
                                  Path(relative_filepath,
                                       IF known THEN "modified" ELSE "new",
                                       new_status.mtime[1]))],
                      loaded_statuses, touched, n + 1)
             ELSE EnrichFrom(fs, acc, loaded_statuses, touched, n + 1)

\* list.sort() of Path objects: by mtime, equal mtimes keep their order
RECURSIVE SortByMtime(_)
SortByMtime(paths) ==
    IF Len(paths) <= 1 THEN paths
    ELSE LET sorted == SortByMtime(SubSeq(paths, 1, Len(paths) - 1))
             last == paths[Len(paths)]
             before == Cardinality({i \in 1..Len(sorted) : sorted[i].mtime <= last.mtime})
         IN  SubSeq(sorted, 1, before) \o << last >> \o SubSeq(sorted, before + 1, Len(sorted))

\* _enrich_new_statuses(new_statuses, root, statuses, touched): the list changed,
\* new_statuses as the function leaves it, and whether its assertion holds
_enrich_new_statuses(fs, crawled_new_statuses, loaded_statuses, touched) ==
    LET acc == EnrichFrom(fs, [new_statuses |-> crawled_new_statuses, changed |-> << >>],
                          loaded_statuses, touched, 1)
    IN  [changed |-> SortByMtime(acc.changed),
         new_statuses |-> acc.new_statuses,
         asserted |-> {acc.changed[i].path : i \in 1..Len(acc.changed)}
                          = DOMAIN acc.new_statuses]

\* CheckedOffFrom keeping the entry of a removed path that is checked off
RECURSIVE CheckedOffFromKeepingRemoved(_, _, _, _)
CheckedOffFromKeepingRemoved(current, news, items, n) ==
    IF n > Len(items) THEN current
    ELSE CheckedOffFromKeepingRemoved(
             IF ~items[n].done THEN current
             ELSE IF was_changed(items[n])
                  THEN DictSet(current, items[n].path, news[items[n].path])
             ELSE current,
             news, items, n + 1)

\* the loop "for path in iterator.items" after the with block, from the n-th item
RECURSIVE CheckedOffFrom(_, _, _, _)
CheckedOffFrom(current, news, items, n) ==
    IF n > Len(items) THEN current
    ELSE CheckedOffFrom(
             IF ~items[n].done THEN current
             ELSE IF was_changed(items[n])
                  THEN DictSet(current, items[n].path, news[items[n].path])
             ELSE IF was_removed(items[n])
                  THEN DictDel(current, items[n].path)
             ELSE current,
             news, items, n + 1)

InitCrawler ==
    /\ files = EmptyDict
    /\ diff_file = None
    /\ crawl_pc = "idle"
    /\ statuses = EmptyDict
    /\ new_statuses = EmptyDict
    /\ last_pattern = None
    /\ iterator = [pending |-> << >>, items |-> << >>]
    /\ last_run = None
    /\ touched_since = {}

\* a file below root is created or written: it has the mtime and the checksum
WriteFile(path, mtime, md5) ==
    /\ crawl_pc = "idle"
    /\ IF path \in DOMAIN files
       THEN files[path] # [mtime |-> mtime, md5 |-> md5]
       ELSE TRUE
    /\ files' = DictSet(files, path, [mtime |-> mtime, md5 |-> md5])
    /\ touched_since' = touched_since \cup {path}
    /\ UNCHANGED << diff_file, crawl_pc, statuses, new_statuses, last_pattern,
                    iterator, last_run >>
    /\ UNCHANGED otherThanCrawler

\* a file below root is removed
RemoveFile(path) ==
    /\ crawl_pc = "idle"
    /\ path \in DOMAIN files
    /\ files' = DictDel(files, path)
    /\ touched_since' = touched_since \cup {path}
    /\ UNCHANGED << diff_file, crawl_pc, statuses, new_statuses, last_pattern,
                    iterator, last_run >>
    /\ UNCHANGED otherThanCrawler

\* changed_files(root, diff_file, pattern) up to its yield; walk is the order of
\* os.walk, removed_order the order in which the set of removed paths is iterated
EnterChangedFiles(walk, removed_order) ==
    /\ crawl_pc = "idle"
    /\ Range(walk) = DOMAIN files
    /\ LET loaded == IF diff_file # None THEN diff_file[1].statuses ELSE EmptyDict
           crawled == _crawl_all(files, loaded, walk)
           enriched == _enrich_new_statuses(files, crawled.new_statuses,
                                            crawled.statuses, crawled.touched)
           removed == [i \in 1..Len(removed_order) |-> Path(removed_order[i], "removed", 0)]
       IN  /\ Range(removed_order) = (DOMAIN crawled.statuses) \ crawled.found
           /\ statuses' = crawled.statuses
           /\ new_statuses' = enriched.new_statuses
           /\ iterator' = [pending |-> enriched.changed \o removed, items |-> << >>]
           /\ crawl_pc' = IF enriched.asserted THEN "running" ELSE "idle"
    /\ last_pattern' = IF diff_file # None THEN Some(diff_file[1].pattern) ELSE None
    /\ UNCHANGED << files, diff_file, last_run, touched_since >>
    /\ UNCHANGED otherThanCrawler

\* TrackingIterator.__next__ with an item left
NextPath ==
    /\ crawl_pc = "running"
    /\ Len(iterator.pending) > 0
    /\ iterator' = [pending |-> Tail(iterator.pending),
                    items |-> Append(iterator.items, Head(iterator.pending))]
    /\ UNCHANGED << files, diff_file, crawl_pc, statuses, new_statuses, last_pattern,
                    last_run, touched_since >>
    /\ UNCHANGED otherThanCrawler

\* Path.check_off of a path that the iterator has yielded
CheckOff(i) ==
    /\ crawl_pc = "running"
    /\ i \in 1..Len(iterator.items)
    /\ ~iterator.items[i].done
    /\ iterator' = [iterator EXCEPT !.items[i].done = TRUE]
    /\ UNCHANGED << files, diff_file, crawl_pc, statuses, new_statuses, last_pattern,
                    last_run, touched_since >>
    /\ UNCHANGED otherThanCrawler

\* changed_files after its yield: the with block has ended, by itself or by an
\* exception
ExitChangedFiles ==
    /\ crawl_pc = "running"
    /\ LET statuses_changed == \E i \in 1..Len(iterator.items) : iterator.items[i].done
           final == CheckedOffFrom(statuses, new_statuses, iterator.items, 1)
       IN  /\ statuses' = final
           /\ diff_file' = IF statuses_changed \/ last_pattern # Some(Pattern)
                           THEN Some([statuses |-> final, pattern |-> Pattern])
                           ELSE diff_file
    /\ crawl_pc' = "idle"
    /\ last_run' = Some(iterator.items \o iterator.pending)
    /\ touched_since' = {}
    /\ UNCHANGED << files, new_statuses, last_pattern, iterator >>
    /\ UNCHANGED otherThanCrawler

----------------------------------------------------------------------------
(* crawler_tools: PIDLock.  Every system call of __enter__ and __exit__ is a  *)
(* step of the process; the processes use the same name.                     *)

\* the processes that run "with PIDLock(name) as locked"; a process is its pid
Processes == 1..MaxProcesses

\* os.kill(pid, 0) succeeds: the process exists
ProcessExists(p) == lock_pc[p] \notin {"not_started", "terminated"}

InitLock ==
    /\ lock_directory = None
    /\ inodes = << >>
    /\ lock_pc = [p \in Processes |-> "not_started"]
    /\ lockfile = [p \in Processes |-> None]
    /\ locked = [p \in Processes |-> FALSE]
    /\ pid = [p \in Processes |-> None]

\* PIDLock.__init__ in a new process
PIDLockInit(p) ==
    /\ lock_pc[p] = "not_started"
    /\ lock_pc' = [lock_pc EXCEPT ![p] = "enter"]
    /\ locked' = [locked EXCEPT ![p] = FALSE]
    /\ UNCHANGED << lock_directory, inodes, lockfile, pid >>
    /\ UNCHANGED otherThanLock

\* __enter__: open(self.lockfile_path, "r+"), with IOError "No such file or
\* directory" if the name does not exist
OpenReadWrite(p) ==
    /\ lock_pc[p] = "enter"
    /\ IF lock_directory # None
       THEN /\ lockfile' = [lockfile EXCEPT ![p] = lock_directory]
            /\ lock_pc' = [lock_pc EXCEPT ![p] = "flock_nb"]
       ELSE /\ lockfile' = lockfile
            /\ lock_pc' = [lock_pc EXCEPT ![p] = "no_file"]
    /\ UNCHANGED << lock_directory, inodes, locked, pid >>
    /\ UNCHANGED otherThanLock

\* __enter__: fcntl.flock(..., LOCK_EX | LOCK_NB), with IOError "Resource
\* temporarily unavailable" if another process holds the lock of the inode; then
\* already_running is True and __enter__ returns self.locked, which is False
FlockNonBlocking(p) ==
    /\ lock_pc[p] = "flock_nb"
    /\ LET inode == lockfile[p][1]
       IN  IF inodes[inode].flock = None
           THEN /\ inodes' = [inodes EXCEPT ![inode].flock = Some(p)]
                /\ lock_pc' = [lock_pc EXCEPT ![p] = "read"]
           ELSE /\ inodes' = inodes
                /\ lock_pc' = [lock_pc EXCEPT ![p] = "in"]
    /\ UNCHANGED << lock_directory, lockfile, locked, pid >>
    /\ UNCHANGED otherThanLock

\* __enter__: pid = int(self.lockfile.read().strip()); on ValueError the file is
\* truncated and already_running is False
ReadPid(p) ==
    /\ lock_pc[p] = "read"
    /\ LET content == inodes[lockfile[p][1]].content
       IN  IF content = None
           THEN /\ pid' = pid
                /\ lock_pc' = [lock_pc EXCEPT ![p] = "write"]
           ELSE /\ pid' = [pid EXCEPT ![p] = content]
                /\ lock_pc' = [lock_pc EXCEPT ![p] = "kill"]
    /\ UNCHANGED << lock_directory, inodes, lockfile, locked >>
    /\ UNCHANGED otherThanLock

\* __enter__: os.kill(pid, 0); with "No such process" the lock is orphaned, the
\* file is truncated and already_running is False; otherwise already_running is
\* True and __enter__ returns False
KillZero(p) ==
    /\ lock_pc[p] = "kill"
    /\ IF ProcessExists(pid[p][1])
       THEN /\ inodes' = inodes
            /\ lock_pc' = [lock_pc EXCEPT ![p] = "in"]
       ELSE /\ inodes' = [inodes EXCEPT ![lockfile[p][1]].content = None]
            /\ lock_pc' = [lock_pc EXCEPT ![p] = "write"]
    /\ UNCHANGED << lock_directory, lockfile, locked, pid >>
    /\ UNCHANGED otherThanLock

\* __enter__ after "No such file or directory": open(self.lockfile_path, "w")
\* creates the file, or truncates the one that exists by now
OpenWrite(p) ==
    /\ lock_pc[p] = "no_file"
    /\ IF lock_directory = None
       THEN /\ inodes' = Append(inodes, [content |-> None, flock |-> None])
            /\ lock_directory' = Some(Len(inodes) + 1)
            /\ lockfile' = [lockfile EXCEPT ![p] = Some(Len(inodes) + 1)]
       ELSE /\ inodes' = [inodes EXCEPT ![lock_directory[1]].content = None]
            /\ lock_directory' = lock_directory
            /\ lockfile' = [lockfile EXCEPT ![p] = lock_directory]
    /\ lock_pc' = [lock_pc EXCEPT ![p] = "flock"]
    /\ UNCHANGED << locked, pid >>
    /\ UNCHANGED otherThanLock

\* __enter__ after "No such file or directory": fcntl.flock(..., LOCK_EX) waits
\* until no other process holds the lock of the inode
FlockBlocking(p) ==
    /\ lock_pc[p] = "flock"
    /\ inodes[lockfile[p][1]].flock = None
    /\ inodes' = [inodes EXCEPT ![lockfile[p][1]].flock = Some(p)]
    /\ lock_pc' = [lock_pc EXCEPT ![p] = "write"]
    /\ UNCHANGED << lock_directory, lockfile, locked, pid >>
    /\ UNCHANGED otherThanLock

\* __enter__ with already_running False: the pid is written, self.locked = True
WritePid(p) ==
    /\ lock_pc[p] = "write"
    /\ inodes' = [inodes EXCEPT ![lockfile[p][1]].content = Some(p)]
    /\ locked' = [locked EXCEPT ![p] = TRUE]
    /\ lock_pc' = [lock_pc EXCEPT ![p] = "in"]
    /\ UNCHANGED << lock_directory, lockfile, pid >>
    /\ UNCHANGED otherThanLock

\* __exit__ with self.locked: fcntl.flock(..., LOCK_UN)
Unlock(p) ==
    /\ lock_pc[p] = "in"
    /\ locked[p]
    /\ inodes' = [inodes EXCEPT ![lockfile[p][1]].flock = None]
    /\ lock_pc' = [lock_pc EXCEPT ![p] = "unlocked"]
    /\ UNCHANGED << lock_directory, lockfile, locked, pid >>
    /\ UNCHANGED otherThanLock

\* __exit__ with self.locked: self.lockfile.close() and
\* os.remove(self.lockfile_path), which removes whatever the name refers to;
\* the process ends after the with block
CloseAndRemove(p) ==
    /\ lock_pc[p] = "unlocked"
    /\ lock_directory' = None
    /\ lock_pc' = [lock_pc EXCEPT ![p] = "terminated"]
    /\ UNCHANGED << inodes, lockfile, locked, pid >>
    /\ UNCHANGED otherThanLock

\* __exit__ without self.locked does nothing; the process ends after the with
\* block, which closes its file and releases a lock that it holds
ExitNotLocked(p) ==
    /\ lock_pc[p] = "in"
    /\ ~locked[p]
    /\ inodes' = [i \in 1..Len(inodes) |->
                     IF inodes[i].flock = Some(p)
                     THEN [inodes[i] EXCEPT !.flock = None]
                     ELSE inodes[i]]
    /\ lock_pc' = [lock_pc EXCEPT ![p] = "terminated"]
    /\ UNCHANGED << lock_directory, lockfile, locked, pid >>
    /\ UNCHANGED otherThanLock

----------------------------------------------------------------------------
(* chantal/samples/permissions.py *)

Usernames == {"u1", "u2"}

GroupNames == {"g1", "g2"}

\* the classes of physical processes
ProcessClasses == {"SixChamberDeposition", "PDSMeasurement"}

\* shared_utils.camel_case_to_underscores of the class names
camel_case_to_underscores ==
    [process_class \in ProcessClasses |->
        IF process_class = "SixChamberDeposition" THEN "six_chamber_deposition"
        ELSE "pds_measurement"]

\* django.contrib.auth.models.Permission.objects.get(codename=...).name
PermissionName ==
    [codename \in {"add_edit_six_chamber_deposition", "add_edit_pds_measurement"} |->
        IF codename = "add_edit_six_chamber_deposition"
        THEN "Can create and edit 6-chamber depositions"
        ELSE "Can create and edit PDS measurements"]

\* translate_permission(permission_codename) in the language of the msgids
translate_permission(permission_codename) == PermissionName[permission_codename]

\* the permissions "<app_label>.<codename>" that a user may hold
PermissionStrings ==
    {"samples.view_all_samples", "samples.add_edit_six_chamber_deposition"}

\* django.contrib.auth.models.User
Users ==
    [username : Usernames, is_superuser : BOOLEAN,
     user_permissions : SUBSET PermissionStrings, groups : SUBSET {"g1"}]

\* models.Sample
Samples == [group : GroupNames, currently_responsible_person : Usernames]

\* models.Process with its class and its samples
ProcessesOf(process_class) ==
    [class : {process_class}, samples : SeqsUpTo(Samples, MaxProcessSamples)]

\* user.has_perm(perm)
has_perm(user, perm) == user.is_superuser \/ perm \in user.user_permissions

\* assert_can_view_sample(user, sample)
assert_can_view_sample(user, sample) ==
    IF /\ ~has_perm(user, "samples.view_all_samples")
       /\ sample.group \notin user.groups
       /\ sample.currently_responsible_person # user.username
    THEN Raised("PermissionError")
    ELSE Returned(None)

\* assert_can_edit_sample(user, sample); the module defines no name
\* PermissionEditSampleError
assert_can_edit_sample(user, sample) ==
    IF sample.currently_responsible_person # user.username
    THEN Raised("NameError")
    ELSE Returned(None)

\* assert_can_add_edit_physical_process(user, process_class, process)
assert_can_add_edit_physical_process(user, process_class, process) ==
    LET permission ==
            translate_permission("add_edit_" \o camel_case_to_underscores[process_class])
    IN  IF ~has_perm(user, permission) THEN Raised("PermissionError")
        ELSE Returned(None)

\* has_permission(*args, **keyw) of generate_permission_function, for the outcome
\* of assert_func(*args, **keyw)
has_permission(assert_func_outcome) ==
    IF ~assert_func_outcome.raised THEN Returned(TRUE)
    ELSE IF assert_func_outcome.exception = "PermissionError" THEN Returned(FALSE)
    ELSE assert_func_outcome

\* generate_permission_function(assert_can_view_sample)
has_permission_to_view_sample(user, sample) ==
    has_permission(assert_can_view_sample(user, sample))

\* assert_can_view_physical_process(user, process)
assert_can_view_physical_process(user, process) ==
    LET permission ==
            translate_permission("add_edit_" \o camel_case_to_underscores[process.class])
    IN  IF /\ ~has_perm(user, permission)
           /\ ~\E i \in 1..Len(process.samples) :
                  has_permission_to_view_sample(user, process.samples[i]).value
        THEN Raised("PermissionError")
        ELSE Returned(None)

\* all_assertion_functions
AssertionFunctions ==
    {"assert_can_view_sample", "assert_can_edit_sample",
     "assert_can_add_edit_physical_process", "assert_can_view_physical_process"}

\* func(*args) for a function of all_assertion_functions
AssertCan(call) ==
    IF call.func = "assert_can_view_sample"
    THEN assert_can_view_sample(call.user, call.sample[1])
    ELSE IF call.func = "assert_can_edit_sample"
    THEN assert_can_edit_sample(call.user, call.sample[1])
    ELSE IF call.func = "assert_can_add_edit_physical_process"
    THEN assert_can_add_edit_physical_process(call.user, call.process_class[1], call.process)
    ELSE assert_can_view_physical_process(call.user, call.process[1])

InitPermissions ==
    /\ perm_pc = "idle"
    /\ perm_call = None
    /\ assert_outcome = None
    /\ has_outcome = None

\* a view is about to check a permission: the function and its arguments
PermissionCheck(func, user, sample, process_class, process) ==
    /\ perm_pc = "idle"
    /\ perm_call' = Some([func |-> func, user |-> user, sample |-> sample,
                          process_class |-> process_class, process |-> process])
    /\ perm_pc' = "asked"
    /\ UNCHANGED << assert_outcome, has_outcome >>
    /\ UNCHANGED otherThanPermissions

\* assert_can_...(*args)
CallAssertCan ==
    /\ perm_pc = "asked"
    /\ assert_outcome' = Some(AssertCan(perm_call[1]))
    /\ perm_pc' = "asserted"
    /\ UNCHANGED << perm_call, has_outcome >>
    /\ UNCHANGED otherThanPermissions

\* has_permission_to_...(*args) with the same arguments
CallHasPermissionTo ==
    /\ perm_pc = "asserted"
    /\ has_outcome' = Some(has_permission(AssertCan(perm_call[1])))
    /\ perm_pc' = "done"
    /\ UNCHANGED << perm_call, assert_outcome >>
    /\ UNCHANGED otherThanPermissions

----------------------------------------------------------------------------
(* samples/views/task_lists.py: TaskForm and the views edit and remove.  A   *)
(* submitted value is a str, "" for a field that is empty or missing; a      *)
(* primary key is the name of the object.                                    *)

TaskUsers == {"u1", "u2", "u3"}

TaskIds == {1}

\* the choices of Task.status
TaskStatuses == {"1 new", "2 accepted", "3 in progress", "0 finished"}

\* two of the choices of Task.priority
TaskPriorities == {"1 critical", "2 normal"}

\* permissions.get_all_addable_physical_process_models(), as content types
ProcessContentTypes == {"pc1", "pc2"}

\* permissions.get_all_adders(process_class.model_class())
get_all_adders ==
    [process_class \in ProcessContentTypes |->
        IF process_class = "pc1" THEN {"u2", "u3"} ELSE {"u2"}]

\* the table of Process: the finished processes with operator and content type
FinishedProcesses ==
    [p \in {"p1"} |-> [operator |-> "u2", content_type |-> "pc1"]]

\* the fields of the form
TaskFormFields ==
    {"status", "process_class", "priority", "finished_process", "comments",
     "customer", "operator"}

\* request.POST; the customer submitted is always the same user
TaskPostData ==
    [status : TaskStatuses, process_class : ProcessContentTypes,
     priority : TaskPriorities, finished_process : {"", "p1"}, comments : {"", "c"},
     customer : {"u3"}, operator : {"", "u2", "u3"}]

\* the pk of a foreign key as a submitted value
PkData(object) == IF object = None THEN "" ELSE object[1]

\* Model.objects.get(pk=...) for "if pk"
GetByPk(pk) == IF pk = "" THEN None ELSE Some(pk)

\* TaskForm.__init__: eligible_operators
eligible_operators(task) ==
    get_all_adders[task.process_class]
        \cup (IF task.operator # None THEN {task.operator[1]} ELSE {})

\* fixed_fields that takes every task for a new one
fixed_fields_without_task(task, user) == {"status", "finished_process", "operator"}

\* TaskForm.__init__: self.fixed_fields
fixed_fields(task, user) ==
    IF task # None
    THEN {"process_class"}
         \cup (IF task[1].status = "1 new"
               THEN {"finished_process"}
                    \cup (IF user \notin eligible_operators(task[1])
                          THEN {"operator", "status"} ELSE {})
               ELSE IF task[1].status \in {"2 accepted", "3 in progress"}
               THEN IF Some(user) # task[1].operator
                    THEN {"status", "priority", "finished_process", "operator"}
                         \cup (IF user # task[1].customer THEN {"comments"} ELSE {})
                    ELSE {}
               ELSE {"priority", "finished_process", "operator"}
                    \cup (IF Some(user) # task[1].operator
                          THEN {"status"}
                               \cup (IF user # task[1].customer THEN {"comments"}
                                     ELSE {})
                          ELSE {}))
    ELSE {"status", "finished_process", "operator"}

\* forms.model_to_dict(self.task, fields)
model_to_dict(task, fields) ==
    [f \in fields |->
        IF f \in {"operator", "finished_process"} THEN PkData(task[f]) ELSE task[f]]

\* TaskForm.__init__: the data that the form is bound to; a value that update
\* adds is the one that the field gets
BoundData(task, fixed, post_data) ==
    IF task # None
    THEN DictUpdate(post_data, model_to_dict(task[1], fixed))
    ELSE DictUpdate(post_data, DictSet(EmptyDict, "status", "1 new"))

\* TaskForm.__init__: the choices of the field operator
OperatorChoices(task) ==
    {""} \cup (IF task # None THEN eligible_operators(task[1]) ELSE {})

\* TaskForm.__init__: the choices of the field finished_process
FinishedProcessChoices(task, user) ==
    {""} \cup
    (IF task = None THEN {}
     ELSE IF Some(user) = task[1].operator
     THEN {p \in DOMAIN FinishedProcesses :
              \/ /\ FinishedProcesses[p].operator = user
                 /\ FinishedProcesses[p].content_type = task[1].process_class
              \/ Some(p) = task[1].finished_process}
     ELSE IF task[1].finished_process # None THEN {task[1].finished_process[1]}
     ELSE {})

\* the choices of the fields, "" being the empty choice
TaskFieldChoices(task, user) ==
    [f \in TaskFormFields \ {"comments"} |->
        IF f = "status" THEN TaskStatuses
        ELSE IF f = "priority" THEN TaskPriorities
        ELSE IF f = "process_class" THEN ProcessContentTypes
        ELSE IF f = "customer" THEN TaskUsers
        ELSE IF f = "operator" THEN OperatorChoices(task)
        ELSE FinishedProcessChoices(task, user)]

\* TaskForm.__init__: field.required
TaskFieldRequired(fixed) ==
    [f \in TaskFormFields |-> f \in {"status", "process_class", "priority"} \ fixed]

\* Field.clean(value) of the field f
TaskFieldClean(f, value, required, choices) ==
    IF value = ""
    THEN IF required THEN Raised("ValidationError") ELSE Returned("")
    ELSE IF f = "comments" \/ value \in choices[f] THEN Returned(value)
    ELSE Raised("ValidationError")

\* TaskForm.clean_status
clean_status(task, user, fixed, value) ==
    IF "status" \in fixed
    THEN IF task # None THEN task[1].status ELSE "1 new"
    ELSE value

\* TaskForm.clean_process_class
clean_process_class(task, user, fixed, value) ==
    IF "process_class" \in fixed THEN task[1].process_class ELSE value

\* TaskForm.clean_priority
clean_priority(task, user, fixed, value) ==
    IF "priority" \in fixed THEN task[1].priority ELSE value

\* TaskForm.clean_finished_process
clean_finished_process(task, user, fixed, value) ==
    IF "finished_process" \in fixed
    THEN IF task # None THEN task[1].finished_process ELSE None
    ELSE GetByPk(value)

\* TaskForm.clean_comments
clean_comments(task, user, fixed, value) ==
    IF "comments" \in fixed THEN task[1].comments ELSE value

\* TaskForm.clean_customer
clean_customer(task, user, fixed, value) ==
    IF task # None THEN task[1].customer ELSE user

\* TaskForm.clean_operator
clean_operator(task, user, fixed, value) ==
    IF "operator" \in fixed
    THEN IF task # None THEN task[1].operator ELSE None
    ELSE GetByPk(value)

\* the method clean_<f> of TaskForm
CleanMethod(f, task, user, fixed, value) ==
    IF f = "status" THEN clean_status(task, user, fixed, value)
    ELSE IF f = "process_class" THEN clean_process_class(task, user, fixed, value)
    ELSE IF f = "priority" THEN clean_priority(task, user, fixed, value)
    ELSE IF f = "finished_process" THEN clean_finished_process(task, user, fixed, value)
    ELSE IF f = "comments" THEN clean_comments(task, user, fixed, value)
    ELSE IF f = "customer" THEN clean_customer(task, user, fixed, value)
    ELSE clean_operator(task, user, fixed, value)

\* TaskForm.clean without the test of the operator
clean_without_operator_test(cleaned) == {}

\* TaskForm.clean: the fields that it adds an error to
clean(cleaned) ==
    IF /\ "status" \in DOMAIN cleaned
       /\ cleaned["status"] \in {"2 accepted", "3 in progress", "0 finished"}
       /\ ("operator" \notin DOMAIN cleaned \/ cleaned["operator"] = None)
    THEN {"operator"}
    ELSE {}

\* TaskForm(user, data, instance=task) and its full_clean: every field is cleaned
\* and given to its clean_<field> method, then clean runs
TaskForm(user, post_data, task) ==
    LET fixed == fixed_fields(task, user)
        bound == BoundData(task, fixed, post_data)
        required == TaskFieldRequired(fixed)
        choices == TaskFieldChoices(task, user)
        field_clean == [f \in TaskFormFields |->
                           TaskFieldClean(f, bound[f], required[f], choices)]
        valid_fields == {f \in TaskFormFields : ~field_clean[f].raised}
        cleaned == [f \in valid_fields |->
                       CleanMethod(f, task, user, fixed, field_clean[f].value)]
    IN  [fixed_fields |-> fixed,
         data |-> bound,
         cleaned_data |-> cleaned,
         errors |-> (TaskFormFields \ valid_fields) \cup clean(cleaned)]

\* task_form.save(): the instance with the cleaned values of its fields
SavedTask(cleaned) == [f \in TaskFormFields |-> cleaned[f]]

\* SamplesForm.__init__: whether the form is bound to the request's data
SamplesFormIsBound(task, user) ==
    IF task = None THEN TRUE
    ELSE user = task[1].customer /\ task[1].status = "1 new"

InitTasks ==
    /\ tasks = EmptyDict
    /\ request_user = None
    /\ task_response = [view |-> "none", outcome |-> "none", task_id |-> None,
                        fixed_fields |-> {}]

\* login_required: a user logs in, the requests that follow are this user's
Login(user) ==
    /\ request_user # Some(user)
    /\ request_user' = Some(user)
    /\ UNCHANGED << tasks, task_response >>
    /\ UNCHANGED otherThanTasks

\* the view edit for a POST request; task_id is None for a new task, and
\* samples_valid is what samples_form.is_valid() returns if the form is bound
EditPost(task_id, post_data, samples_valid) ==
    /\ request_user # None
    /\ task_id # None => task_id[1] \in DOMAIN tasks
    /\ task_id = None => \E id \in TaskIds : id \notin DOMAIN tasks
    /\ LET user == request_user[1]
           task == IF task_id # None THEN Some(tasks[task_id[1]]) ELSE None
           permitted == IF task = None THEN TRUE
                        ELSE IF user = task[1].customer THEN TRUE
                        ELSE user \in get_all_adders[task[1].process_class]
           form == TaskForm(user, post_data, task)
           valid == IF form.errors # {} THEN FALSE
                    ELSE IF SamplesFormIsBound(task, user) THEN samples_valid
                    ELSE TRUE
           id == IF task_id # None THEN task_id[1]
                 ELSE CHOOSE id \in TaskIds : id \notin DOMAIN tasks
       IN  /\ IF samples_valid THEN TRUE
              ELSE permitted /\ SamplesFormIsBound(task, user)
           /\ tasks' = IF permitted /\ valid
                       THEN DictSet(tasks, id, SavedTask(form.cleaned_data))
                       ELSE tasks
           /\ task_response' =
                [view |-> IF task_id = None THEN "add" ELSE "edit",
                 outcome |-> IF ~permitted THEN "PermissionError"
                             ELSE IF valid THEN "saved" ELSE "invalid",
                 task_id |-> IF permitted /\ valid THEN Some(id) ELSE task_id,
                 fixed_fields |-> IF permitted THEN form.fixed_fields ELSE {}]
    /\ UNCHANGED request_user
    /\ UNCHANGED otherThanTasks

\* the view remove
Remove(task_id) ==
    /\ request_user # None
    /\ task_id \in DOMAIN tasks
    /\ IF tasks[task_id].customer # request_user[1]
       THEN /\ tasks' = tasks
            /\ task_response' = [view |-> "remove", outcome |-> "PermissionError",
                                 task_id |-> Some(task_id), fixed_fields |-> {}]
       ELSE /\ tasks' = DictDel(tasks, task_id)
            /\ task_response' = [view |-> "remove", outcome |-> "removed",
                                 task_id |-> Some(task_id), fixed_fields |-> {}]
    /\ UNCHANGED request_user
    /\ UNCHANGED otherThanTasks

----------------------------------------------------------------------------
(* The export request as a state machine *)

LabelColumnHeading == "sample"

Labels == {"", "s"}

\* the row tree under construction
LastRowTree == root.children[Len(root.children)]

InitExport ==
    /\ root = DataNode("root")
    /\ pc = "input"
    /\ column_groups = << >>
    /\ columns = << >>
    /\ shared_columns = EmptyDict
    /\ flattened_tree = << >>
    /\ selected_key_indices = << >>
    /\ label_column = << >>
    /\ table_rows = << >>
    /\ outcome = "none"

Init ==
    /\ InitExport
    /\ InitForms
    /\ InitCrawler
    /\ InitLock
    /\ InitPermissions
    /\ InitTasks

\* get_data of a further sample or process: a new row tree
AddRowTree(name) ==
    /\ pc = "input"
    /\ root' = [root EXCEPT !.children = Append(@, DataNode(name))]
    /\ UNCHANGED << pc, column_groups, columns, shared_columns, flattened_tree,
                    selected_key_indices, label_column, table_rows, outcome >>
    /\ UNCHANGED otherThanExport

\* get_data of a sub-process or layer: a new node below the row tree's root; the
\* names of a row tree are unambiguous (find_unambiguous_names)
AddChild(depth, name) ==
    /\ pc = "input"
    /\ Len(root.children) > 0
    /\ depth \in 1..RightDepth(LastRowTree)
    /\ name \notin TreeNames(LastRowTree)
    /\ root' = [root EXCEPT !.children[Len(root.children)] =
                                AppendChild(@, depth, DataNode(name))]
    /\ UNCHANGED << pc, column_groups, columns, shared_columns, flattened_tree,
                    selected_key_indices, label_column, table_rows, outcome >>
    /\ UNCHANGED otherThanExport

\* data_node.items.append(DataItem(...)) in get_data
AddItem(item) ==
    /\ pc = "input"
    /\ Len(root.children) > 0
    /\ ItemCount(root) < MaxItems
    /\ root' = [root EXCEPT !.children[Len(root.children)] = AppendItem(@, item)]
    /\ UNCHANGED << pc, column_groups, columns, shared_columns, flattened_tree,
                    selected_key_indices, label_column, table_rows, outcome >>
    /\ UNCHANGED otherThanExport

\* build_column_group_list(root): the forest is walked, the results are kept
RunBuilder ==
    /\ root' = WalkedForest(root)
    /\ LET locals == BuilderRun(root)
           returned == << locals.column_groups, locals.columns >>
       IN  /\ column_groups' = returned[1]
           /\ columns' = returned[2]
           /\ shared_columns' = locals.shared_columns
    /\ pc' = "built"
    /\ outcome' = "returned"
    /\ UNCHANGED << flattened_tree, selected_key_indices, label_column, table_rows >>
    /\ UNCHANGED otherThanExport

\* build_column_group_list(root) on the forest that get_data has built
Build ==
    /\ pc = "input"
    /\ RunBuilder

\* build_column_group_list(root) once more, on the forest as the run before left it
BuildAgain ==
    /\ pc = "built"
    /\ RunBuilder

\* flatten_tree(root)
Flatten ==
    /\ pc = "built"
    /\ flattened_tree' = flatten_tree(root)
    /\ pc' = "flattened"
    /\ outcome' = "returned"
    /\ UNCHANGED << root, column_groups, columns, shared_columns,
                    selected_key_indices, label_column, table_rows >>
    /\ UNCHANGED otherThanExport

\* the lists of distinct Python indices into a list of n elements: the column
\* indices come from a set (duplicates are dropped), in any order
Selections(n) ==
    {s \in SeqsUpTo(0..(n - 1), n) : \A a, b \in 1..Len(s) : s[a] = s[b] => a = b}

\* generate_table_rows(flattened_tree, columns, selected, labels, heading)
Generate(selected, labels) ==
    /\ pc = "flattened"
    /\ LET result == generate_table_rows(flattened_tree, columns, selected, labels,
                                         LabelColumnHeading)
       IN  /\ table_rows' = IF result.raised THEN << >> ELSE result.value
           /\ outcome' = IF result.raised THEN result.exception ELSE "returned"
    /\ selected_key_indices' = selected
    /\ label_column' = labels
    /\ pc' = "generated"
    /\ UNCHANGED << root, column_groups, columns, shared_columns, flattened_tree >>
    /\ UNCHANGED otherThanExport

\* Layer.get_data: the node of the n-th layer
LayerData(n, gas) ==
    [DataNode("Layer " \o ToString(n)) EXCEPT
        !.items = << DataItem("gas", Some(gas), None) >>]

\* Deposition.get_data: the node of the deposition with the nodes of its layers
DepositionData(number, gases) ==
    [DataNode("Deposition") EXCEPT
        !.items = << DataItem("number", Some(number), None) >>,
        !.children = [n \in 1..Len(gases) |-> LayerData(n, gases[n])]]

DepositionNumbers == {"1", "2"}

Gases == {"SiH4", "H2"}

\* get_data of a further deposition: a new row tree
AddDeposition(number, gases) ==
    /\ pc = "input"
    /\ Len(root.children) < MaxDepositions
    /\ root' = [root EXCEPT !.children = Append(@, DepositionData(number, gases))]
    /\ UNCHANGED << pc, column_groups, columns, shared_columns, flattened_tree,
                    selected_key_indices, label_column, table_rows, outcome >>
    /\ UNCHANGED otherThanExport

\* get_data adds a node to the forest
AddNode ==
    \/ \E name \in NodeNames : AddRowTree(name)
    \/ \E depth \in 1..RightDepth(root), name \in NodeNames : AddChild(depth, name)

\* get_data builds the forest, of at most MaxNodes nodes
GetData ==
    \/ NodeCount(root) - 1 < MaxNodes /\ AddNode
    \/ \E item \in DataItems : AddItem(item)

\* the forest has at most MaxTableNodes nodes
TableSized == NodeCount(root) - 1 <= MaxTableNodes

\* the whole export, for forests of at most MaxTableNodes nodes
Next ==
    \/ GetData /\ TableSized'
    \/ Build
    \/ BuildAgain
    \/ Flatten
    \/ \E selected \in Selections(Len(columns)),
          labels \in [1..Len(flattened_tree) -> Labels] :
            Generate(selected, labels)

Spec == Init /\ [][Next]_vars

\* the column-group builder alone, for forests of at most MaxNodes nodes
NextBuilder ==
    \/ GetData
    \/ Build

SpecBuilder == Init /\ [][NextBuilder]_vars

\* the column-group builder for forests of at most MaxOrderNodes nodes without
\* items
NextOrder ==
    \/ NodeCount(root) - 1 < MaxOrderNodes /\ AddNode
    \/ Build

SpecOrder == Init /\ [][NextOrder]_vars

\* the whole export for a forest of depositions with their layers
NextDepositions ==
    \/ \E number \in DepositionNumbers, gases \in SeqsUpTo(Gases, MaxLayers) :
            AddDeposition(number, gases)
    \/ Build
    \/ Flatten
    \/ \E selected \in Selections(Len(columns)),
          labels \in [1..Len(flattened_tree) -> Labels] :
            Generate(selected, labels)

SpecDepositions == Init /\ [][NextDepositions]_vars

\* the selection forms of the export view
NextForms ==
    \/ /\ form_pc = "none"
       /\ \E column_groups_list \in GroupNameLists, columns_list \in ColumnIndexLists :
              OldDataFormInit(column_groups_list, columns_list)
    \/ SubmitOldData
    \/ /\ form_pc = "none"
       /\ \E column_groups_text \in {<< >>, << "a" >>}, columns_text \in PostedTexts :
              SubmitOldDataText(column_groups_text, columns_text)
    \/ /\ form_pc = "none"
       /\ \E values \in PostedLists : SubmitColumns(values)
    \/ Clean

SpecForms == Init /\ [][NextForms]_vars

\* the task views: tasks are created, edited and removed
NextTasks ==
    \/ \E user \in TaskUsers : Login(user)
    \/ \E post_data \in TaskPostData, samples_valid \in BOOLEAN :
            EditPost(None, post_data, samples_valid)
    \/ \E task_id \in TaskIds, post_data \in TaskPostData, samples_valid \in BOOLEAN :
            EditPost(Some(task_id), post_data, samples_valid)
    \/ \E task_id \in TaskIds : Remove(task_id)

SpecTasks == Init /\ [][NextTasks]_vars

\* an assert_can_ function and its has_permission_to_ function, called with the
\* same arguments
NextPermissions ==
    \/ \E func \in {"assert_can_view_sample", "assert_can_edit_sample"},
          user \in Users, sample \in Samples :
            PermissionCheck(func, user, Some(sample), None, None)
    \/ \E user \in Users, process_class \in ProcessClasses :
          \E process \in {None} \cup {Some(process) : process \in ProcessesOf(process_class)} :
            PermissionCheck("assert_can_add_edit_physical_process", user, None,
                            Some(process_class), process)
    \/ \E user \in Users, process_class \in ProcessClasses :
          \E process \in ProcessesOf(process_class) :
            PermissionCheck("assert_can_view_physical_process", user, None, None,
                            Some(process))
    \/ CallAssertCan
    \/ CallHasPermissionTo

SpecPermissions == Init /\ [][NextPermissions]_vars

\* processes that enter and leave "with PIDLock(name)" for the same name
NextLock ==
    \/ \E p \in Processes : PIDLockInit(p)
    \/ \E p \in Processes : OpenReadWrite(p)
    \/ \E p \in Processes : FlockNonBlocking(p)
    \/ \E p \in Processes : ReadPid(p)
    \/ \E p \in Processes : KillZero(p)
    \/ \E p \in Processes : OpenWrite(p)
    \/ \E p \in Processes : FlockBlocking(p)
    \/ \E p \in Processes : WritePid(p)
    \/ \E p \in Processes : Unlock(p)
    \/ \E p \in Processes : CloseAndRemove(p)
    \/ \E p \in Processes : ExitNotLocked(p)

SpecLock == Init /\ [][NextLock]_vars

\* the crawler's runs of changed_files and the files changing between them
NextCrawler ==
    \/ \E path \in RelativePaths, mtime \in 1..MaxMtime, md5 \in Md5Sums :
            WriteFile(path, mtime, md5)
    \/ \E path \in RelativePaths : RemoveFile(path)
    \/ \E walk \in DistinctSeqs(RelativePaths, Cardinality(RelativePaths)),
          removed_order \in DistinctSeqs(RelativePaths, Cardinality(RelativePaths)) :
            EnterChangedFiles(walk, removed_order)
    \/ NextPath
    \/ \E i \in 1..Cardinality(RelativePaths) : CheckOff(i)
    \/ ExitChangedFiles

SpecCrawler == Init /\ [][NextCrawler]_vars

----------------------------------------------------------------------------
(* Vocabulary of the properties *)

\* the nodes of a tree, a parent before its children, an earlier sibling first
RECURSIVE PreOrder(_)
PreOrder(node) ==
    << node >> \o Concat([c \in 1..Len(node.children) |-> PreOrder(node.children[c])])

\* the names of the row trees' roots
RootNames == {root.children[r].name : r \in 1..Len(root.children)}

\* the names of the nodes below the row trees' roots
NestedNames ==
    UNION {UNION {TreeNames(root.children[r].children[c]) :
                     c \in 1..Len(root.children[r].children)} :
              r \in 1..Len(root.children)}

\* the names of all nodes of the forest
ForestNames == UNION {TreeNames(root.children[r]) : r \in 1..Len(root.children)}

\* all nodes of the forest in the order in which the builder meets them
ForestPreOrder == Concat([r \in 1..Len(root.children) |-> PreOrder(root.children[r])])

\* the first node of the forest with the given name
FirstNode(name) ==
    ForestPreOrder[CHOOSE n \in 1..Len(ForestPreOrder) :
                      /\ ForestPreOrder[n].name = name
                      /\ \A m \in 1..(n - 1) : ForestPreOrder[m].name # name]

\* the column groups with the given name
GroupsNamed(name) == {g \in 1..Len(column_groups) : column_groups[g].name = name}

\* build_column_group_list has just returned column_groups and columns for the
\* forest in root (the later steps leave them as they are)
Built == pc = "built"

\* flatten_tree has just returned flattened_tree for the forest in root
Flattened == pc = "flattened"

\* the heading a column has after Column.disambig
Suffixed(column) ==
    column.key \o " {" \o StrJoin(" / ", column.column_group_names) \o "}"

----------------------------------------------------------------------------
(* C1 and C2: missing cells and rectangularity *)

\* C1: generate_table_rows completes for every forest and every selection of valid
\* column indices, and returns the header row and one data row per row tree, each
\* with len(selected_key_indices) cells, plus one if the label column is generated.
RectangularTable ==
    pc = "generated" =>
        /\ outcome = "returned"
        /\ Len(table_rows) = 1 + Len(root.children)
        /\ \A t \in 1..Len(table_rows) :
              Len(table_rows[t]) =
                  Len(selected_key_indices) + (IF AnyLabel(label_column) THEN 1 ELSE 0)

\* C2: for every column of the builder and every row of the flattener, get_value
\* never fails; it returns the value a listed group has for the key, or "".
GetValueNeverFails ==
    Flattened =>
        \A c \in 1..Len(columns), r \in 1..Len(flattened_tree) :
            LET result == get_value(columns[c], flattened_tree[r])
                row == flattened_tree[r]
            IN  /\ ~result.raised
                /\ \/ result.value = ""
                   \/ \E n \in Range(columns[c].column_group_names) :
                         /\ n \in DOMAIN row
                         /\ columns[c].key \in DOMAIN row[n]
                         /\ result.value = row[n][columns[c].key]

----------------------------------------------------------------------------
(* C3: one column group per node name *)

\* C3: for a forest whose node names are unique within each row tree, column_groups
\* holds exactly one ColumnGroup per node name of the forest: no name twice, none
\* missing, none invented.
OneGroupPerName ==
    Built =>
        /\ \A g, h \in 1..Len(column_groups) :
              column_groups[g].name = column_groups[h].name => g = h
        /\ {column_groups[g].name : g \in 1..Len(column_groups)} = ForestNames

\* a name occurs in two row trees, beside another name
WitnessOneGroupPerName ==
    /\ pc = "built"
    /\ \E r1, r2 \in 1..Len(root.children) :
          /\ r1 < r2
          /\ TreeNames(root.children[r1]) \cap TreeNames(root.children[r2]) # {}
    /\ Len(column_groups) >= 2
    /\ Cardinality(ForestNames) = Len(column_groups)

----------------------------------------------------------------------------
(* C4: shared columns *)

\* row trees r1 < r2 have roots of different names, and both roots carry an item
\* with the origin and the key
SharedPair(r1, r2, origin, key) ==
    /\ r1 < r2
    /\ root.children[r1].name # root.children[r2].name
    /\ \A r \in {r1, r2} :
          \E i \in 1..Len(root.children[r].items) :
              /\ root.children[r].items[i].origin = Some(origin)
              /\ root.children[r].items[i].key = key

\* the root of row tree r is the first node of its name in the forest and has the
\* key on one item only
FirstOfItsName(r, key) ==
    /\ \A q \in 1..(r - 1) : root.children[r].name \notin TreeNames(root.children[q])
    /\ Cardinality({i \in 1..Len(root.children[r].items) :
                       root.children[r].items[i].key = key}) = 1

\* the (origin, key) pair has one Column, listing both roots in first-seen order,
\* and both roots' groups point to it
MergedIntoOneColumn(r1, r2, origin, key) ==
    LET n1 == root.children[r1].name
        n2 == root.children[r2].name
    IN  /\ << origin, key >> \in DOMAIN shared_columns
        /\ \A g \in GroupsNamed(n1) \cup GroupsNamed(n2) :
              /\ key \in DOMAIN column_groups[g].key_indices
              /\ column_groups[g].key_indices[key] = shared_columns[<< origin, key >>]
        /\ LET names == columns[shared_columns[<< origin, key >>] + 1].column_group_names
           IN  \E a, b \in 1..Len(names) : a < b /\ names[a] = n1 /\ names[b] = n2
        /\ columns[shared_columns[<< origin, key >>] + 1].key = key
        /\ Cardinality({c \in 1..Len(columns) :
                           /\ columns[c].key = key
                           /\ {n1, n2} \cap Range(columns[c].column_group_names) # {}}) = 1

----------------------------------------------------------------------------
(* C5 and C6: headings *)

\* the column groups that have the key
GroupsWithKey(key) ==
    {g \in 1..Len(column_groups) : key \in DOMAIN column_groups[g].key_indices}

----------------------------------------------------------------------------
(* C7: a row without the column group *)

----------------------------------------------------------------------------
(* C8: a name that is top-level in one row tree and nested in another *)

InconsistentStructure == RootNames \cap NestedNames # {}

----------------------------------------------------------------------------
(* C9: shared columns are for top-level nodes *)

----------------------------------------------------------------------------
(* C10: running the builder again *)

----------------------------------------------------------------------------
(* C11 and C12: the table that generate_table_rows returns *)

\* generate_table_rows has returned table_rows for flattened_tree, columns,
\* selected_key_indices and label_column
Generated == pc = "generated" /\ outcome = "returned"

\* the headings of the selected columns, in the order of the selection
SelectedHeadings ==
    [s \in 1..Len(selected_key_indices) |-> columns[selected_key_indices[s] + 1].heading]

\* C11: the table that generate_table_rows returns has the label column (the
\* heading first in the header, the row's label first in every data row) if and
\* only if some label is non-empty; when all labels are empty the header is the
\* selected headings alone, without label_column_heading, and the header and every
\* data row have one cell fewer than the table for the same inputs with one label
\* made non-empty.
LabelColumnOmission ==
    Generated =>
        LET some_label == \E l \in 1..Len(label_column) : label_column[l] # ""
        IN  /\ some_label =>
                /\ table_rows[1] = << LabelColumnHeading >> \o SelectedHeadings
                /\ \A r \in 1..Len(flattened_tree) :
                      /\ Len(table_rows[r + 1]) = Len(selected_key_indices) + 1
                      /\ table_rows[r + 1][1] = label_column[r]
            /\ ~some_label =>
                /\ table_rows[1] = SelectedHeadings
                /\ \A r \in 1..Len(flattened_tree) :
                      Len(table_rows[r + 1]) = Len(selected_key_indices)
                /\ \A l \in 1..Len(label_column) :
                      LET other == generate_table_rows(
                                       flattened_tree, columns, selected_key_indices,
                                       [label_column EXCEPT ![l] = "s"],
                                       LabelColumnHeading)
                      IN  /\ ~other.raised
                          /\ Len(other.value) = Len(table_rows)
                          /\ \A t \in 1..Len(table_rows) :
                                Len(table_rows[t]) = Len(other.value[t]) - 1

\* a table of two rows and a selected column has been generated with empty labels
WitnessLabelColumnOmission ==
    /\ Generated
    /\ Len(label_column) = 2
    /\ \A l \in 1..Len(label_column) : label_column[l] = ""
    /\ Len(selected_key_indices) > 0
    /\ Len(table_rows) = 3

\* C12: the table that generate_table_rows returns follows the selection: the
\* header is the label heading (if the label column is generated) and then
\* columns[i].heading for i in selected_key_indices in the order given; there is
\* one data row per row tree, in the order of the row trees, and its cell j is
\* columns[selected_key_indices[j]].get_value(flattened_tree[r]).
SelectionOrderKept ==
    Generated =>
        LET offset == IF \E l \in 1..Len(label_column) : label_column[l] # ""
                      THEN 1 ELSE 0
        IN  /\ Len(table_rows) = 1 + Len(flattened_tree)
            /\ Len(flattened_tree) = Len(root.children)
            /\ Len(table_rows[1]) = offset + Len(selected_key_indices)
            /\ offset = 1 => table_rows[1][1] = LabelColumnHeading
            /\ \A j \in 1..Len(selected_key_indices) :
                  table_rows[1][offset + j] = columns[selected_key_indices[j] + 1].heading
            /\ \A r \in 1..Len(flattened_tree) :
                  /\ Len(table_rows[r + 1]) = offset + Len(selected_key_indices)
                  /\ flattened_tree[r] = flatten_row_tree(root.children[r])
                  /\ \A j \in 1..Len(selected_key_indices) :
                        table_rows[r + 1][offset + j] =
                            get_value(columns[selected_key_indices[j] + 1],
                                      flattened_tree[r]).value

\* a table has been generated for a selection that names a later column first,
\* the two columns differ in heading and, in some row, in value
WitnessSelectionOrderKept ==
    /\ Generated
    /\ Len(selected_key_indices) = 2
    /\ selected_key_indices[1] > selected_key_indices[2]
    /\ table_rows[1][Len(table_rows[1])] # table_rows[1][Len(table_rows[1]) - 1]
    /\ \E t \in 2..Len(table_rows) :
          table_rows[t][Len(table_rows[t])] # table_rows[t][Len(table_rows[t]) - 1]

----------------------------------------------------------------------------
(* C13: a deposition with a layer and a deposition without *)

\* the forest of the scenario, as get_data builds it
ScenarioForest ==
    [DataNode("root") EXCEPT
        !.children = << DepositionData("1", << "SiH4" >>), DepositionData("2", << >>) >>]

\* the data rows of the table, without the label column
DataCells ==
    LET offset == IF \E l \in 1..Len(label_column) : label_column[l] # "" THEN 1 ELSE 0
    IN  [r \in 1..(Len(table_rows) - 1) |->
            SubSeq(table_rows[r + 1], offset + 1, Len(table_rows[r + 1]))]

----------------------------------------------------------------------------
(* C14: the rows of flatten_tree *)

\* the value that the last item of the node with the key has, "" for None
LastValue(node, key) ==
    LET last == CHOOSE i \in 1..Len(node.items) :
                    /\ node.items[i].key = key
                    /\ \A j \in (i + 1)..Len(node.items) : node.items[j].key # key
    IN  IF node.items[last].value = None THEN "" ELSE node.items[last].value[1]

----------------------------------------------------------------------------
(* C15: key_indices and columns *)

\* C15: after build_column_group_list, for every column group g and every key k
\* of g.key_indices, the index g.key_indices[k] lies in 0..len(columns)-1, the
\* column at that index has the key k, and g.name is one of that column's
\* column_group_names.
KeyIndicesConsistent ==
    Built =>
        \A g \in 1..Len(column_groups) :
            \A key \in DOMAIN column_groups[g].key_indices :
                LET index == column_groups[g].key_indices[key]
                IN  /\ index \in 0..(Len(columns) - 1)
                    /\ columns[index + 1].key = key
                    /\ column_groups[g].name \in Range(columns[index + 1].column_group_names)

\* a column group points to a column that another column group has made
WitnessKeyIndicesConsistent ==
    /\ pc = "built"
    /\ \E g \in 1..Len(column_groups) :
          \E key \in DOMAIN column_groups[g].key_indices :
              /\ columns[column_groups[g].key_indices[key] + 1].column_group_names[1]
                    # column_groups[g].name
              /\ column_groups[g].key_indices[key] < Len(columns)

----------------------------------------------------------------------------
(* C16: the order of the column groups while the forest is processed *)

\* the forest of the first n row trees
ForestPrefix(n) == [root EXCEPT !.children = SubSeq(@, 1, n)]

\* the column groups that build_column_group_list returns for the first n row trees
GroupsOfPrefix(n) == build_column_group_list(ForestPrefix(n))[1]

\* a is b with some elements left out
RECURSIVE IsSubsequence(_, _)
IsSubsequence(a, b) ==
    IF Len(a) = 0 THEN TRUE
    ELSE IF Len(b) = 0 THEN FALSE
    ELSE IF a[1] = b[1] THEN IsSubsequence(Tail(a), Tail(b))
    ELSE IsSubsequence(a, Tail(b))

\* C16: handling a further row tree neither reorders nor removes column groups:
\* for every n, the column_groups built from the first n row trees is a
\* subsequence, in the same relative order, of the column_groups built from the
\* first n + 1 row trees; the list returned is the one built from all row trees.
FirstSeenOrderKept ==
    Built =>
        /\ GroupsOfPrefix(Len(root.children)) = column_groups
        /\ \A n \in 0..(Len(root.children) - 1) :
              IsSubsequence(GroupsOfPrefix(n), GroupsOfPrefix(n + 1))

\* a further row tree has put a column group between two earlier ones
WitnessFirstSeenOrderKept ==
    /\ pc = "built"
    /\ \E n \in 1..(Len(root.children) - 1) :
          /\ Len(GroupsOfPrefix(n + 1)) > Len(GroupsOfPrefix(n))
          /\ SubSeq(GroupsOfPrefix(n + 1), 1, Len(GroupsOfPrefix(n))) # GroupsOfPrefix(n)

----------------------------------------------------------------------------
(* C17 and C18: the selection forms *)

\* the OldDataForm of a request has been validated on the fields that the
\* OldDataForm of the request before rendered from its initial selection
RoundTripDone ==
    /\ form_pc = "cleaned"
    /\ data.form = "OldDataForm"
    /\ initial # None

\* C17: serialising a selection in OldDataForm (group names joined by TAB, indices
\* joined by spaces) and parsing it back with clean_column_groups and
\* clean_columns returns the original set of group names and the original set of
\* indices, for every set of TAB-free group names, the empty set included.
RoundTripLossless ==
    RoundTripDone =>
        /\ errors = {}
        /\ cleaned_data.columns = Some(Range(initial[1].columns))
        /\ cleaned_data.column_groups = Some(Range(initial[1].column_groups))

\* the column indices as submitted: the values of ColumnsForm's field, the
\* whitespace-separated pieces of OldDataForm's field
SubmittedIndices ==
    IF data.form = "OldDataForm" THEN SplitWhitespace(data.columns) ELSE data.columns

\* the text is an integer: an optional sign and decimal digits, possibly with
\* whitespace around
IsIntegerText(text) ==
    LET stripped == Strip(text)
        digits == IF Len(stripped) > 0 /\ stripped[1] \in {"+", "-"}
                  THEN Tail(stripped) ELSE stripped
    IN  /\ Len(digits) > 0
        /\ \A i \in 1..Len(digits) : \E d \in 1..10 : DigitChars[d] = digits[i]

----------------------------------------------------------------------------
(* C19 and C20: what the next run of changed_files yields *)

\* the paths that the iterator of the current run yields if it is run to its end
Offered == iterator.items \o iterator.pending

\* a further run of changed_files, with the same root, diff file and pattern, is
\* inside its with block
NextRunEntered == crawl_pc = "running" /\ last_run # None

\* the current run yields the relative path
OfferedAgain(path) == \E j \in 1..Len(Offered) : Offered[j].path = path

\* C19: a path that a run of changed_files held and that was not checked off (or
\* not even taken from the iterator) is yielded by the next run if the file was
\* left untouched in between, whatever other paths of the run were checked off.
NotCheckedOffYieldedAgain ==
    NextRunEntered =>
        \A i \in 1..Len(last_run[1]) :
            (~last_run[1][i].done /\ last_run[1][i].path \notin touched_since)
                => OfferedAgain(last_run[1][i].path)

\* C20: a new or modified path that was yielded and checked off is not yielded by
\* the next run if the file was left as it was in between (same mtime, same
\* content); a removed path that was checked off is not reported as removed again.
CheckedOffNotYieldedAgain ==
    NextRunEntered =>
        \A i \in 1..Len(last_run[1]) :
            last_run[1][i].done =>
                /\ (was_changed(last_run[1][i]) /\ last_run[1][i].path \notin touched_since)
                      => ~OfferedAgain(last_run[1][i].path)
                /\ was_removed(last_run[1][i]) =>
                      \A j \in 1..Len(Offered) :
                          Offered[j].path = last_run[1][i].path => ~was_removed(Offered[j])

\* the run before checked off a new, a modified or a removed path and left
\* another one unchecked, and the next run is under way
WitnessCheckedOffNotYieldedAgain ==
    /\ NextRunEntered
    /\ \E i, k \in 1..Len(last_run[1]) :
          /\ last_run[1][i].done
          /\ last_run[1][i].type_ \in {"modified", "removed"}
          /\ last_run[1][i].path \notin touched_since
          /\ ~last_run[1][k].done
    /\ Len(Offered) > 0

\* C21: changed_files yields the removed paths first and then the new or modified
\* paths from the oldest to the newest modification time.
RemovedFirstThenOldestToNewest ==
    crawl_pc = "running" =>
        \A i, j \in 1..Len(Offered) :
            i < j =>
                /\ was_removed(Offered[j]) => was_removed(Offered[i])
                /\ (was_changed(Offered[i]) /\ was_changed(Offered[j]))
                      => Offered[i].mtime <= Offered[j].mtime

\* the status table that changed_files loads from the diff file
LoadedStatuses == IF diff_file # None THEN diff_file[1].statuses ELSE EmptyDict

\* the directory holds a file that the status table does not know
HasNewFile == \E path \in DOMAIN files : path \notin DOMAIN LoadedStatuses

\* the directory holds a known file with another mtime and another checksum
HasModifiedFile ==
    \E path \in (DOMAIN files) \cap (DOMAIN LoadedStatuses) :
        /\ Some(files[path].mtime) # LoadedStatuses[path].mtime
        /\ Some(files[path].md5) # LoadedStatuses[path].md5

\* the directory holds a known file with another mtime and the same checksum
HasTouchedFile ==
    \E path \in (DOMAIN files) \cap (DOMAIN LoadedStatuses) :
        /\ Some(files[path].mtime) # LoadedStatuses[path].mtime
        /\ Some(files[path].md5) = LoadedStatuses[path].md5

\* the directory holds a known file with the same mtime
HasUntouchedFile ==
    \E path \in (DOMAIN files) \cap (DOMAIN LoadedStatuses) :
        Some(files[path].mtime) = LoadedStatuses[path].mtime

\* C26: the assertion at the end of _enrich_new_statuses holds for every status
\* table and every directory content that changed_files can be called with: the
\* paths collected in changed are the keys of new_statuses.
EnrichAssertionHolds ==
    crawl_pc = "idle" =>
        \A walk \in DistinctSeqs(RelativePaths, Cardinality(RelativePaths)) :
            Range(walk) = DOMAIN files =>
                LET crawled == _crawl_all(files, LoadedStatuses, walk)
                IN  _enrich_new_statuses(files, crawled.new_statuses, crawled.statuses,
                                         crawled.touched).asserted

\* changed_files is about to be called on a directory with a new file beside a
\* known one that was modified, touched only, or left alone
WitnessEnrichAssertionHolds ==
    /\ crawl_pc = "idle"
    /\ diff_file # None
    /\ HasNewFile
    /\ HasModifiedFile \/ HasTouchedFile \/ HasUntouchedFile

----------------------------------------------------------------------------
(* C22: PIDLock *)

\* the process is inside its with block and locked is True
InsideLocked(p) == lock_pc[p] = "in" /\ locked[p]

\* C22: at any time at most one process is inside a "with PIDLock(name)" block
\* with locked == True for the same name.
PIDLockMutualExclusion ==
    \A p, q \in Processes : (InsideLocked(p) /\ InsideLocked(q)) => p = q

----------------------------------------------------------------------------
(* C23: has_permission_to_... *)

\* C23: for every assert_can_ function, has_permission_to_ called with the same
\* arguments raises nothing and returns False exactly when the assert_can_
\* function does not return, True otherwise; also has_permission_to_edit_sample
\* for a user who is not the sample's currently responsible person.
HasPermissionMirrorsAssert ==
    perm_pc = "done" =>
        /\ ~has_outcome[1].raised
        /\ has_outcome[1].value = ~assert_outcome[1].raised

----------------------------------------------------------------------------
(* C24: the insertion cursor *)

\* the list that walk_row_tree returns for the row tree with Python index row
RowNameList(row) == walk_row_tree(root.children[row + 1], TRUE).name_list

\* the local variables of build_column_group_list when the loop is about to handle
\* the n-th node of the row tree with Python index row
BuilderStateBefore(row, n) ==
    ProcessNodes(ProcessRows(NewBuilderState, ForestPrefix(row), 0), row,
                 SubSeq(RowNameList(row), 1, n - 1), 1)

\* the n-th node of that row tree has the name of a column group that exists when
\* the loop comes to it
KnownNode(row, n) ==
    NodeInColumnGroups(RowNameList(row)[n], BuilderStateBefore(row, n).column_groups)

\* C24: while a row tree after the first is processed, a node with the name of an
\* existing column group creates no group and no columns and moves the cursor to
\* that group's index plus one; a node with an unknown name is inserted at the
\* cursor, which then advances by one, so that after a known node it comes
\* immediately after that node's group.
CursorRepositioning ==
    Built =>
        \A row \in 1..(Len(root.children) - 1) :
            LET name_list == RowNameList(row)
                row_start == ProcessRows(NewBuilderState, ForestPrefix(row), 0)
            IN
            \A n \in 1..Len(name_list) :
                LET node == name_list[n]
                    before == ProcessNodes(row_start, row, SubSeq(name_list, 1, n - 1), 1)
                    after == ProcessNode(before, row, node)
                IN  IF NodeInColumnGroups(node, before.column_groups)
                    THEN /\ after.column_groups = before.column_groups
                         /\ after.columns = before.columns
                         /\ after.position = ListIndex(before.column_groups, node) + 1
                    ELSE /\ Len(after.column_groups) = Len(before.column_groups) + 1
                         /\ after.column_groups[before.position + 1].name = node.name
                         /\ SubSeq(after.column_groups, 1, before.position)
                               = SubSeq(before.column_groups, 1, before.position)
                         /\ SubSeq(after.column_groups, before.position + 2,
                                   Len(after.column_groups))
                               = SubSeq(before.column_groups, before.position + 1,
                                        Len(before.column_groups))
                         /\ after.position = before.position + 1
                         /\ (n > 1 /\ KnownNode(row, n - 1)) =>
                               after.column_groups[before.position].name
                                   = name_list[n - 1].name

\* in a later row tree a node with items and a known name is followed by a node
\* with items and an unknown name
WitnessCursorRepositioning ==
    /\ pc = "built"
    /\ \E row \in 1..(Len(root.children) - 1) :
          \E n \in 2..Len(RowNameList(row)) :
              /\ KnownNode(row, n - 1)
              /\ ~KnownNode(row, n)
              /\ Len(RowNameList(row)[n - 1].items) > 0
              /\ Len(RowNameList(row)[n].items) > 0

----------------------------------------------------------------------------
(* C25: the inner order of a row tree *)

\* the names of the nodes of the row trees before the one with Python index row
EarlierNames(row) == UNION {TreeNames(root.children[r]) : r \in 1..row}

\* the Python index of the first column group with the name
GroupIndex(name) ==
    (CHOOSE g \in 1..Len(column_groups) :
        /\ column_groups[g].name = name
        /\ \A h \in 1..(g - 1) : column_groups[h].name # name) - 1

\* C25: for every row tree, the column groups first introduced by that row tree
\* appear in column_groups in the order of the tree's pre-order walk, also when
\* known and unknown nodes alternate in the tree.
InnerOrderPreserved ==
    Built =>
        \A row \in 0..(Len(root.children) - 1) :
            LET walk == PreOrder(root.children[row + 1])
            IN  \A i, j \in 1..Len(walk) :
                    (/\ i < j
                     /\ walk[i].name \notin EarlierNames(row)
                     /\ walk[j].name \notin EarlierNames(row))
                        => GroupIndex(walk[i].name) < GroupIndex(walk[j].name)

----------------------------------------------------------------------------
(* C27: the keys of the items *)

\* C27: for every node name and item key that occur together on some node of the
\* forest, the column group of that name has the key in its key_indices, also
\* when the key first occurs on a node of that name in a later row tree than the
\* one that created the group.
NoItemLost ==
    Built =>
        \A n \in 1..Len(ForestPreOrder) :
            \A i \in 1..Len(ForestPreOrder[n].items) :
                \E g \in GroupsNamed(ForestPreOrder[n].name) :
                    ForestPreOrder[n].items[i].key \in DOMAIN column_groups[g].key_indices

----------------------------------------------------------------------------
(* C28: the cells of the table *)

\* the keys of a node's items
NodeKeys(node) == {node.items[i].key : i \in 1..Len(node.items)}

\* item keys are unique within a node
UniqueKeysPerNode ==
    LET nodes == ForestPreOrder
    IN  \A n \in 1..Len(nodes) :
            LET items == nodes[n].items
            IN  \A i, j \in 1..Len(items) : items[i].key = items[j].key => i = j

\* equally named nodes carry the same key set
SameKeySets ==
    LET nodes == ForestPreOrder
    IN  \A n, m \in 1..Len(nodes) :
            nodes[n].name = nodes[m].name => NodeKeys(nodes[n]) = NodeKeys(nodes[m])

\* the forest that the claim is about
RegularForest == ~InconsistentStructure /\ UniqueKeysPerNode /\ SameKeySets

\* the cell that an item's value gives: the value, or "" for None
CellOf(item) == IF item.value # None THEN item.value[1] ELSE ""

\* the number of cells before the selected columns in a row of the table
LabelOffset == IF \E l \in 1..Len(label_column) : label_column[l] # "" THEN 1 ELSE 0

\* C28: for a forest in which item keys are unique within a node, equally named
\* nodes carry the same key set and no name is top-level in one row tree and
\* nested in another: for every row tree, every node of it and every item of the
\* node, the table cell of that row in the column key_indices[key] of the node's
\* column group is the item's value, or the empty string if the value is absent.
CellFidelity ==
    (pc = "generated" /\ RegularForest) =>
        /\ outcome = "returned"
        /\ \A r \in 1..Len(root.children) :
              LET walk == PreOrder(root.children[r])
                  offset == LabelOffset
              IN  \A n \in 1..Len(walk) :
                      \A g \in GroupsNamed(walk[n].name) :
                          \A i \in 1..Len(walk[n].items) :
                              LET item == walk[n].items[i]
                                  key_indices == column_groups[g].key_indices
                              IN  /\ item.key \in DOMAIN key_indices
                                  /\ \A j \in 1..Len(selected_key_indices) :
                                        selected_key_indices[j] = key_indices[item.key]
                                        => table_rows[r + 1][offset + j] = CellOf(item)

\* a table has been generated for a regular forest with a nested node; the
\* columns of an item with a value and of an item without are selected
WitnessCellFidelity ==
    /\ Generated
    /\ RegularForest
    /\ NestedNames # {}
    /\ Len(selected_key_indices) = 2
    /\ \E n, m \in 1..Len(ForestPreOrder) :
          /\ \E i \in 1..Len(ForestPreOrder[n].items) :
                ForestPreOrder[n].items[i].value = None
          /\ \E i \in 1..Len(ForestPreOrder[m].items) :
                ForestPreOrder[m].items[i].value # None
          /\ ForestPreOrder[m].name \in NestedNames


----------------------------------------------------------------------------
(* Tasks: what an edit may change, and the operator of an accepted task *)

\* a step of the view edit that saved the existing task id
SavedEditOf(id) ==
    /\ id \in DOMAIN tasks
    /\ task_response'.view = "edit"
    /\ task_response'.outcome = "saved"
    /\ task_response'.task_id = Some(id)

\* C29: an edit of an existing task saves, for every field that is fixed for
\* the editing user, the value the task had before, whatever the request
\* submits; a user who is neither operator nor customer of a task in status
\* "2 accepted" or "3 in progress" changes neither status, priority, finished
\* process, operator nor comments; process_class and customer of an existing
\* task never change
FixedFieldsKept ==
    [][\A id \in TaskIds :
          SavedEditOf(id) =>
              /\ id \in DOMAIN tasks'
              /\ \A f \in task_response'.fixed_fields : tasks'[id][f] = tasks[id][f]
              /\ tasks'[id].process_class = tasks[id].process_class
              /\ tasks'[id].customer = tasks[id].customer
              /\ (/\ tasks[id].status \in {"2 accepted", "3 in progress"}
                  /\ request_user # tasks[id].operator
                  /\ request_user # Some(tasks[id].customer))
                 => \A f \in {"status", "priority", "finished_process", "operator",
                              "comments"} : tasks'[id][f] = tasks[id][f]]_vars

\* an edit was saved for a user who is neither operator nor customer of the
\* task in status "2 accepted" or "3 in progress": all its fields were fixed
WitnessFixedFieldsKept ==
    /\ task_response.view = "edit"
    /\ task_response.outcome = "saved"
    /\ task_response.fixed_fields = {"process_class", "status", "priority",
                                     "finished_process", "operator", "comments"}
    /\ \E id \in DOMAIN tasks :
          /\ task_response.task_id = Some(id)
          /\ tasks[id].status \in {"2 accepted", "3 in progress"}
          /\ request_user # tasks[id].operator
          /\ request_user # Some(tasks[id].customer)

\* C30: every stored task in status "2 accepted", "3 in progress" or
\* "0 finished" has an operator, and the task that the view has just created
\* has status "1 new" and no operator
OperatorSetWhenAccepted ==
    /\ \A id \in DOMAIN tasks :
          tasks[id].status \in {"2 accepted", "3 in progress", "0 finished"}
              => tasks[id].operator # None
    /\ (task_response.view = "add" /\ task_response.outcome = "saved")
          => \A id \in DOMAIN tasks :
                task_response.task_id = Some(id)
                    => tasks[id].status = "1 new" /\ tasks[id].operator = None

\* an edit has saved a task in one of the three statuses, with its operator
WitnessOperatorSetWhenAccepted ==
    /\ task_response.view = "edit"
    /\ task_response.outcome = "saved"
    /\ \E id \in DOMAIN tasks :
          /\ task_response.task_id = Some(id)
          /\ tasks[id].status \in {"2 accepted", "3 in progress", "0 finished"}
          /\ tasks[id].operator # None

====
